---- MODULE Spec2Model ----
(***************************************************************************)
(* State-machine model of the supervisory control loop of the agent        *)
(* (src/agent/loop.py: run_agent), of the SCOUT score cap of the verifier  *)
(* (src/agent/verifier.py: deep_verify) and of the notes.md guard.         *)
(*                                                                         *)
(* One turn of the loop is a sequence of steps: AgentStep (the step is     *)
(* counted and the model answers), then ParseErrorTurn, NoToolTurn or      *)
(* ToolTurn; a ToolTurn is followed by one ProcessCall per tool call of    *)
(* the response, a NoToolTurn that reaches the verifier by Verify and      *)
(* Decide.                                                                 *)
(*                                                                         *)
(* Abstractions.  Strings are replaced by the features the code reads:     *)
(* a model response by the parser's verdict, its finish reason, its        *)
(* finalization phrase, its STATUS_UPDATE token and its EVIDENCE_USED ids; *)
(* a shell command by its sequence of words (the regular expressions of    *)
(* _notes_write_mode are evaluated on the words); a URL by its host and    *)
(* query family; the three epistemic lists by sets of tags (order and the  *)
(* embedded command text dropped).  Counters and flags that only select a  *)
(* message text (pre_tool_nudges, last_failure_streak, force_query_        *)
(* mutation) and the message history are not state here.  The LLM, the     *)
(* sandbox and the judge are nondeterministic inputs.                      *)
(* A return value of run_agent is a record of what its text is made of.    *)
(*                                                                         *)
(* Spec and FairSpec describe the runs in which the writes to the files of *)
(* the host work directory succeed and the runtime's own shell commands    *)
(* return.  trace_event and runtime_shell have no handler for a failure:   *)
(* FaultSpec adds the runs (profile "faults") in which a shell command of  *)
(* the runtime raises.  StreamSpec describes the two streamer threads and  *)
(* the control loop as writers of the artifact files, ContextSpec the      *)
(* prompt assembly of one turn over message sizes, ExtractSpec the         *)
(* extraction of the tool calls from a response text that holds several    *)
(* JSON objects.                                                           *)
(*                                                                         *)
(* The variables trace_new, evidence_new, notes_new, move_new and          *)
(* query_new hold what the last step appended to trace.jsonl (tool events  *)
(* only), evidence.jsonl, notes.md (sections written by the runtime),      *)
(* move_ledger.jsonl and query_ledger.jsonl; query_calls keeps the last    *)
(* three agent shell calls that had a query family; contract_status and    *)
(* dispatched record what the last contract check and the last processed   *)
(* call did; class_failure_run counts the executed calls that failed one   *)
(* after the other with the same source class; feedback is the verifier   *)
(* feedback the last step pushed to the history (its form and the score    *)
(* it shows), sandbox_stops the number of calls of sm.stop.  Init is the   *)
(* state after sm.start returned the sandbox.                              *)
(***************************************************************************)
EXTENDS Integers, Sequences, FiniteSets, TLC

----------------------------------------------------------------------------
(* Bounds of the model *)

\* max_steps passed to run_agent (the step budget, > 0)
MaxSteps == 4
\* tool calls extracted from one response
MaxBatch == 2
\* shell commands the verifier's mini-agents run in one verification round
MaxMiniCmds == 1

----------------------------------------------------------------------------
(* Program constants *)

\* loop.py:1010 (and 955): tool calls required before the verifier may run
MIN_TOOL_CALLS == 3
max_verifier_rounds == 8
NOTES_UPDATE_INTERVAL == 3
STAGNATION_LIMIT == 3
\* loop.py:918
PARSE_ERROR_LIMIT == 5
\* loop.py:1051
LENGTH_NUDGE_LIMIT == 4
\* loop.py:934 and 946
GRADIENT_REMINDER_LIMIT == 4
GRADIENT_DROP_LIMIT == 6
\* loop.py:1522
FINALIZATION_LIMIT == 3
\* loop.py:1081/1091: a decision is accepted from this score on
ACCEPT_SCORE == 3
\* verifier.py:855: the SCOUT cap
CAP_SCORE == 2
\* verifier.py:836: distinct citation domains required
MIN_CITATION_DOMAINS == 2
\* verifier.py:628/870: instructions kept in a decision
MAX_INSTRUCTIONS == 3
\* loop.py:1083: instructions of a decision recorded as constraints
MAX_RECORDED_INSTRUCTIONS == 5
NEGATIVE_CLAIM_MIN_OFFICIAL == 2
NEGATIVE_CLAIM_MIN_INDEPENDENT == 1
\* loop.py:40: NEGATIVE_CLAIM_THRESHOLD_PCT = 0.6, in tenths
NEGATIVE_CLAIM_THRESHOLD_TENTHS == 6
MOVE_REPEAT_LIMIT == 3
FAILURE_ESCALATION_LIMIT == 3
QUERY_MUTATION_BUDGET == 2
DOMAIN_SHIFT_LIMIT == 2

Min(a, b) == IF a <= b THEN a ELSE b

----------------------------------------------------------------------------
(* Shell commands, as sequences of words.  "notes.md" stands for the path  *)
(* /work/notes.md, "a.txt" for /work/a.txt, "*.md" for /work/*.md.         *)

CmdWords(c) ==
  CASE c = "ls"             -> <<"ls">>
    [] c = "cat_notes"      -> <<"cat", "notes.md">>
    [] c = "append"         -> <<"echo", ">>", "notes.md">>
    [] c = "overwrite"      -> <<"echo", ">", "notes.md">>
    [] c = "rm"             -> <<"rm", "notes.md">>
    [] c = "append_then_rm" -> <<"echo", ">>", "a.txt", ";", "rm", "notes.md">>
    [] c = "rm_glob"        -> <<"rm", "*.md">>
    [] c = "cp_null"        -> <<"cp", "/dev/null", "notes.md">>
    [] c = "write_final"    -> <<"echo", ">", "final.txt">>
    [] c = "curl_gov_q1"    -> <<"curl", "https://a.gov/search?q=q1">>
    [] c = "curl_gov_q2"    -> <<"curl", "https://a.gov/search?q=q2">>
    [] c = "curl_eu"        -> <<"curl", "https://b.eu/">>
    [] c = "curl_blog"      -> <<"curl", "https://c.com/", ">>", "notes.md">>
    [] c = "ls_tilde"       -> <<"ls", "aa~u">>
    [] OTHER                -> <<>>

\* words that contain the letter n or a backslash: the class [^\\n] of the
\* regular expressions in _notes_write_mode does not match across them
NWords == {"notes.md", "truncate", "/dev/null", "final.txt"}

\* words i < j with only [^\\n] characters between them
NFree(w, i, j) == \A k \in (i + 1)..(j - 1) : w[k] \notin NWords

\* <head> [^\\n]* notes\.md
SpanToNotes(w, heads) ==
  \E i \in 1..Len(w) : \E j \in (i + 1)..Len(w) :
    /\ w[i] \in heads
    /\ w[j] = "notes.md"
    /\ NFree(w, i, j)

HasWord(w, x) == \E i \in 1..Len(w) : w[i] = x

\* loop.py:233-263.  "none" stands for Python's None.
NotesWriteModeOfWords(w) ==
  IF ~HasWord(w, "notes.md") THEN "none"
  ELSE IF SpanToNotes(w, {">>"}) THEN "append"
  ELSE IF \E i \in 1..Len(w) : \E k \in (i + 1)..Len(w) : \E j \in (k + 1)..Len(w) :
            /\ w[i] = "tee" /\ w[k] = "-a" /\ w[j] = "notes.md"
            /\ NFree(w, i, k) /\ NFree(w, k, j) THEN "append"
  ELSE IF HasWord(w, "notes_append") THEN "append"
  ELSE IF SpanToNotes(w, {">", ">>"}) THEN "overwrite"
  ELSE IF \E i \in 1..(Len(w) - 1) : \E j \in (i + 2)..Len(w) :
            w[i] = "cat" /\ w[i + 1] \in {">", ">>"} /\ w[j] = "notes.md" THEN "overwrite"
  ELSE IF SpanToNotes(w, {"tee"}) THEN "overwrite"
  ELSE IF SpanToNotes(w, {"truncate"}) THEN "overwrite"
  ELSE IF SpanToNotes(w, {"rm"}) THEN "overwrite"
  ELSE IF SpanToNotes(w, {"mv"}) THEN "overwrite"
  ELSE IF SpanToNotes(w, {"cp"}) THEN "overwrite"
  ELSE IF HasWord(w, "write_text") \/ HasWord(w, "write(") \/ HasWord(w, "notes_reset")
       THEN "overwrite"
  ELSE "none"

_notes_write_mode(c) == NotesWriteModeOfWords(CmdWords(c))

\* commands that touch files only
FileCmds == {"ls", "cat_notes", "append", "overwrite", "rm", "append_then_rm",
             "rm_glob", "cp_null", "write_final"}

\* commands that fetch a URL
UrlCmds == {"curl_gov_q1", "curl_gov_q2", "curl_eu", "curl_blog"}

\* a command that passes the deny check and whose notes section does not
FaultCmds == {"ls_tilde"}

\* the commands of the model (loop.py:1182: args["cmd"])
Cmds == FileCmds \cup UrlCmds \cup FaultCmds

\* config.py:8-17: the deny patterns that are one word between word boundaries
DenyWords == {"dd", "mkfs", "mount", "sudo", "chown"}

\* tools.py:166-169: a command is refused if a deny pattern matches in it
DenyCheck(words) == words \cap DenyWords # {}

\* loop.py:149-150: notes_append puts the base64 text of the section into the
\* command it runs.  The word "aa~u" stands for the argument aa~u followed by
\* the character U+07CA: at its place in the "## Step" section of step 1
\* its bytes 7E 75 DF 8A encode to the base64 text +dd+, in which the deny
\* pattern \bdd\b matches.  The result: the words between word boundaries
\* that the base64 text adds to the command.
Base64Words(w) == IF HasWord(w, "aa~u") THEN {"dd"} ELSE {}

\* tb.shell refuses the command that notes_append builds for the call
NotesAppendDenied == [c \in Cmds |-> DenyCheck(Base64Words(CmdWords(c)))]

\* _notes_write_mode, tabulated over the commands of the model
NotesMode == [c \in Cmds |-> _notes_write_mode(c)]

\* loop.py:737-746: a redirection or tee, under /work, with a final-like keyword
_writes_final_like_file(c) ==
  LET w == CmdWords(c) IN
    /\ HasWord(w, ">") \/ HasWord(w, ">>") \/ HasWord(w, "tee")
    /\ HasWord(w, "final.txt")

\* What bash does to the size of /work/notes.md when it runs the words from
\* position i on (sizes count sections; a removed or truncated file has size 0).
RECURSIVE ShellNotesSize(_, _, _)
ShellNotesSize(w, i, size) ==
  IF i > Len(w) THEN size
  ELSE IF w[i] \in {"rm", "truncate", "mv"} /\ i < Len(w) /\ w[i + 1] \in {"notes.md", "*.md"}
       THEN ShellNotesSize(w, i + 2, 0)
  ELSE IF w[i] = "cp" /\ i + 1 < Len(w) /\ w[i + 2] = "notes.md"
       THEN ShellNotesSize(w, i + 3, 0)
  ELSE IF w[i] = ">" /\ i < Len(w) /\ w[i + 1] = "notes.md"
       THEN ShellNotesSize(w, i + 2, 0)
  ELSE IF w[i] = ">>" /\ i < Len(w) /\ w[i + 1] = "notes.md"
       THEN ShellNotesSize(w, i + 2, size + 1)
  ELSE ShellNotesSize(w, i + 1, size)

\* the command holds an operation that removes, truncates, moves, overwrites
\* or copies over notes.md (an operation after which bash leaves an empty file)
DestroysNotes(c) ==
  \E k \in 1..Len(CmdWords(c)) : ShellNotesSize(SubSeq(CmdWords(c), 1, k), 1, 1) = 0

\* DestroysNotes, tabulated over the commands of the model
Destroys == [c \in Cmds |-> DestroysNotes(c)]

\* ShellNotesSize, tabulated: the size bash leaves when the file held 0 or 1
\* sections.  A command that leaves the same size in both cases has replaced
\* the file; any other command has added to it.
ShellEffect == [c \in Cmds |-> [n \in 0..1 |-> ShellNotesSize(CmdWords(c), 1, n)]]

WritesFinal == [c \in Cmds |-> _writes_final_like_file(c)]

\* the size of notes.md after tb.shell has run command c
NotesSizeAfter(c, size) ==
  IF ShellEffect[c][0] = ShellEffect[c][1]
  THEN ShellEffect[c][0]
  ELSE size + ShellEffect[c][0]

----------------------------------------------------------------------------
(* URLs of a command (loop.py:498-534) *)

\* the words that match https?://[^\s"'<>]+, split by urlparse into the
\* normalised host and the normalised value of the query parameter q
UrlParts(word) ==
  CASE word = "https://a.gov/search?q=q1" -> [domain |-> "a.gov", query_family |-> "q1"]
    [] word = "https://a.gov/search?q=q2" -> [domain |-> "a.gov", query_family |-> "q2"]
    [] word = "https://b.eu/"             -> [domain |-> "b.eu", query_family |-> "none"]
    [] word = "https://c.com/"            -> [domain |-> "c.com", query_family |-> "none"]
    [] OTHER                              -> [domain |-> "none", query_family |-> "none"]

\* loop.py:1184-1188: domain and query family of the first URL of the command
\* ("none" stands for None)
PrimaryUrlOfWords(w) ==
  LET urls == SelectSeq(w, LAMBDA x : UrlParts(x).domain # "none")
  IN IF urls = <<>> THEN UrlParts("") ELSE UrlParts(urls[1])

PrimaryUrl == [c \in Cmds |-> PrimaryUrlOfWords(CmdWords(c))]

\* loop.py:1183-1184: the first URL of the command ("" stands for None)
PrimaryUrlWordOf(w) ==
  LET urls == SelectSeq(w, LAMBDA x : UrlParts(x).domain # "none")
  IN IF urls = <<>> THEN "" ELSE urls[1]

PrimaryUrlWord == [c \in Cmds |-> PrimaryUrlWordOf(CmdWords(c))]

\* loop.py:484: the host ends with .gov, .int or .eu
GovDomains == {"a.gov", "b.eu"}

\* loop.py:423-436; no command of the model fetches from a search engine
_is_search_domain(d) == d \in {"google.com", "bing.com"}

\* loop.py:478-489; no host of the model contains a token of the task text
_is_official_domain(d, hints) == d # "none" /\ (d \in hints \/ d \in GovDomains)

\* loop.py:536-554; the hosts of the model are none of the registries,
\* literature sites or commentary sites the function lists
_classify_source(d, hints) ==
  IF d = "none" THEN "unknown"
  ELSE IF _is_official_domain(d, hints) THEN "official"
  ELSE "commentary"

\* loop.py:556-570
_classify_move(d, qf, source_class, last_d, last_qf, last_sc) ==
  IF d = "none" /\ qf = "none" THEN "non_search"
  ELSE IF last_d = "none" THEN "initial"
  ELSE IF d = last_d
       THEN IF qf # "none" /\ qf = last_qf THEN "retry"
            ELSE IF qf # "none" /\ qf # last_qf THEN "reformulate"
            ELSE "same_domain"
  ELSE IF last_sc # "none" /\ source_class # last_sc THEN "source_shift"
  ELSE "domain_shift"

----------------------------------------------------------------------------
(* Inputs: what the agent model answers, what the sandbox returns and what   *)
(* the judge decides.  A run draws its inputs from one of the profiles,      *)
(* each rich in one group of inputs and plain in the others.                 *)

\* "judge": the decisions of the verifier; "contract": the markers of a
\* tool-less response and failing tools; "notes": the shell commands of the
\* agent and of the verifier's mini-agents; "retries": parse errors,
\* truncated responses and final-file writes; "search": commands that fetch
\* URLs with a query; "negative": commands that fetch URLs, on a task with a
\* negative claim; "threshold": a negative-claim task that meets its domain
\* minima before the step threshold of the negative-claim check; "failures":
\* failing tools; "rounds": a step budget that outlasts the verification budget
Profiles == {"judge", "contract", "notes", "retries", "search", "negative",
             "threshold", "failures", "rounds"}

\* the step budgets of a run (max_steps > 0)
StepBudgets(p) ==
  CASE p = "retries" -> {1, MaxSteps + 1}
    [] p = "rounds" -> {MaxSteps + max_verifier_rounds}
    [] p = "negative" -> {MaxSteps - 1}
    [] p = "threshold" -> {MaxSteps + 3}
    [] OTHER -> {MaxSteps}

\* STATUS_UPDATE: token of a response ("none": no such line)
StatusTokens == {"none", "UNRESOLVED", "BLOCKED", "VERIFIED", "OTHER"}

\* what an EVIDENCE_USED: line may cite: nothing ({}: no line, or an empty
\* list), ev_0001, or ev_0000 (an id that record_evidence never issues)
CitedSets == {{}, {1}, {0}}

NoResp == [kind |-> "none", length |-> FALSE, fin |-> FALSE, su |-> "none",
           cited |-> {}, calls |-> <<>>, final |-> FALSE]

\* a response that claims VERIFIED and cites ev_0001
PlainAnswer == [kind |-> "text", length |-> FALSE, fin |-> FALSE, su |-> "VERIFIED",
                cited |-> {1}, calls |-> <<>>, final |-> FALSE]

\* the same with a THOUGHT block and a JSON object {"final": ...} that names
\* no tool (parse.py:128-137: tool_name None, tool_args the object)
FinalAnswer == [PlainAnswer EXCEPT !.final = TRUE]

\* parse_with_thought reports a hard error (parse.py:86-87, 112-113, 125-126)
ParseErrorResps(p) ==
  IF p = "retries"
  THEN [kind : {"parse_error"}, length : BOOLEAN, fin : {FALSE}, su : {"none"},
        cited : {{}}, calls : {<<>>}, final : {FALSE}]
  ELSE IF p = "faults"
  THEN [kind : {"parse_error"}, length : {FALSE}, fin : {FALSE}, su : {"none"},
        cited : {{}}, calls : {<<>>}, final : {FALSE}]
  ELSE {}

\* free text without a tool call (parse.py:100-101, 136-137)
TextResps(p) ==
  CASE p = "contract" ->
         [kind : {"text"}, length : {FALSE}, fin : BOOLEAN, su : StatusTokens,
          cited : CitedSets, calls : {<<>>}, final : {FALSE}]
    [] p = "retries" ->
         [kind : {"text"}, length : BOOLEAN, fin : {FALSE}, su : {"VERIFIED"},
          cited : {{1}}, calls : {<<>>}, final : {FALSE}]
    [] p = "rounds" -> {PlainAnswer, FinalAnswer}
    [] OTHER -> {PlainAnswer}

ShellCall(c) == [tool |-> "shell", cmd |-> c]

\* the commands of the "notes" profile
NotesCmds == {"ls", "append", "overwrite", "append_then_rm", "cp_null"}

\* the commands of the "search" profile
QueryCmds == {"curl_gov_q1", "curl_gov_q2", "curl_blog"}

\* the tool calls a response may hold
Calls(p) ==
  CASE p = "notes" -> {ShellCall(c) : c \in NotesCmds}
    [] p = "search" -> {ShellCall(c) : c \in QueryCmds}
    [] p = "negative" -> {ShellCall(c) : c \in UrlCmds}
    [] p = "retries" -> {ShellCall("ls"), ShellCall("write_final")}
    [] p = "failures" -> {ShellCall("ls"), [tool |-> "browser", cmd |-> "ls"]}
    [] p = "faults" -> {ShellCall("ls"), ShellCall("ls_tilde")}
    [] OTHER -> {ShellCall("ls")}

\* the "threshold" profile visits two official domains, then an independent one
Batches(p) ==
  IF p = "threshold"
  THEN {<<ShellCall("curl_gov_q1"), ShellCall("curl_eu")>>, <<ShellCall("curl_blog")>>}
  ELSE UNION {[1..n -> Calls(p)] : n \in 1..MaxBatch}

\* one or more tool calls (loop.py:75-88, 922-923)
ToolResps(p) ==
  [kind : {"tools"}, length : {FALSE},
   fin : IF p = "retries" THEN BOOLEAN ELSE {FALSE},
   su : {"none"}, cited : {{}}, calls : Batches(p), final : {FALSE}]

Resps(p) == ParseErrorResps(p) \cup TextResps(p) \cup ToolResps(p)

\* what tb.shell does with a command: exit code 0, a non-zero exit code, an
\* exception (deny pattern, cwd rejection, backend), or exit code 0 with an
\* output that matches the 403/forbidden pattern
ExecOutcomes(p) ==
  CASE p = "failures" -> {"ok", "exit1", "out403", "raise"}
    [] p = "faults" -> {"ok", "raise"}
    [] OTHER -> {"ok"}

\* commands the verifier's mini-agents may run (verifier.py:489-493: no guard)
MiniCmds == {"ls", "rm"}

MiniRuns(p) ==
  IF p = "notes" THEN UNION {[1..n -> MiniCmds] : n \in 0..MaxMiniCmds} ELSE {<<>>}

\* verifier.py:310-317: _parse_judge_score finds a digit 1..4 in the text of the
\* judge, or yields 2
ParsedScores == 1..4

\* verifier.py:609-616: an int "score" of the judge's JSON object replaces the
\* parsed score whatever its value; 0 and 5 stand for the ints outside 1..4
JudgeScores == {0} \cup ParsedScores \cup {5}

\* what the judge and the checks of one round produce
AllJudgeInputs ==
  [score : JudgeScores,           \* verifier.py:609-616
   n_instructions : 0..MAX_INSTRUCTIONS, \* verifier.py:618-635
   unknown_checks : 0..1,         \* verifier.py:824-825
   n_domains : 1..2,              \* verifier.py:829-830
   need_coverage : BOOLEAN,       \* verifier.py:729-730
   coverage_ok : BOOLEAN,         \* verifier.py:826-827
   gradient : BOOLEAN,            \* the judge answered with a JSON object
   missing : BOOLEAN,             \* its "missing" list is not empty
   wrong : BOOLEAN]               \* its "wrong" list is not empty

\* verifier.py:618, 635: the judge gives instructions only for a score <= 2;
\* "missing" and "wrong" are fields of the gradient
JudgeInputOk(j) ==
  /\ j.n_instructions > 0 => j.score <= CAP_SCORE
  /\ (j.missing \/ j.wrong) => j.gradient
  /\ j.score \notin ParsedScores => j.gradient
  /\ j.coverage_ok => j.need_coverage

\* a judge that scores 2 or 3, with two cited domains and nothing else
PlainJudgeInputs ==
  {j \in AllJudgeInputs :
     /\ j.score \in {CAP_SCORE, ACCEPT_SCORE}
     /\ j.n_instructions = 0 /\ j.unknown_checks = 0
     /\ j.n_domains = MIN_CITATION_DOMAINS
     /\ ~j.need_coverage /\ ~j.coverage_ok
     /\ ~j.gradient /\ ~j.missing /\ ~j.wrong}

JudgeInputs(p) ==
  IF p = "judge" THEN {j \in AllJudgeInputs : JudgeInputOk(j)} ELSE PlainJudgeInputs

----------------------------------------------------------------------------
(* The epistemic state (loop.py:268-297) *)

EpistemicState ==
  [status |-> "IN_PROGRESS", unresolved |-> {}, constraints |-> {}, blocked |-> {}]

add_constraint(ep, text) == [ep EXCEPT !.constraints = @ \cup {text}]

add_unresolved(ep, text) == [ep EXCEPT !.unresolved = @ \cup {text}]

add_blocked(ep, text) == [ep EXCEPT !.blocked = @ \cup {text}]

set_verified(ep) ==
  [status |-> "VERIFIED", unresolved |-> {}, constraints |-> {}, blocked |-> {}]

SetStatus(ep, st) == [ep EXCEPT !.status = st]

----------------------------------------------------------------------------
VARIABLES
  profile,             \* the input profile of the run
  pc,                  \* "start", "turn", "answered", "calls", "verify",
                       \* "decided", "done"
  max_steps,           \* argument of run_agent
  step,                \* loop counter
  llm_calls,           \* calls of client.chat_raw made by the control loop
  result,              \* which return statement ended run_agent ("none": running)
  epistemic,           \* status and the three lists
  tool_calls_made,
  evidence_counter,    \* evidence_ids is {ev_0001 .. ev_<evidence_counter>}
  last_evidence_count,
  last_failure_type,
  length_nudges,
  parse_error_hits,
  verifier_rounds,
  pending_gradient,    \* TRUE: a gradient of the verifier is pending
  gradient_reminders,
  finalization_hits,
  stagnation_streak,
  force_tool_next,
  notes_required,
  move_repeat_streak,
  last_move_sig,
  negative_claim_task,
  official_domains_checked,
  independent_domains_checked,
  official_domain_hints,
  last_domain,         \* last_domain and last_domain_key: set together (1474, 1484)
  last_query_family,
  last_source_class,
  recent_query_families,
  domain_same_streak,
  force_domain_shift,
  source_class_failure_streak,
  force_source_shift,
  force_move_change,
  class_failure_run,   \* executed calls at the end of the run so far that failed
                       \* one after the other with the same source_class
  resp,                \* the response of the current turn
  tool_calls,          \* the tool calls of the response not processed yet
  notes_size,          \* sections in /work/notes.md
  contract_status,     \* epistemic.status when the citation contract check ended
  decision,            \* the VerifierDecision of the current turn
  dispatched,          \* the call processed last was handed to tb.shell
  trace_new,           \* tool events the last step appended to trace.jsonl
  evidence_new,        \* records the last step appended to evidence.jsonl
  move_new,            \* records the last step appended to move_ledger.jsonl
  query_new,           \* records the last step appended to query_ledger.jsonl
  query_calls,         \* the last three agent shell calls that had a query family
  notes_new,           \* sections the last step made the runtime append to notes.md
  stream_pc,           \* where the log streamer and the event streamer are
  appending,           \* the artifact file each thread has open for append
  file_writers,        \* the threads that have opened each artifact file for append
  notes_chars,         \* len(notes_content), the text of notes.md read for the prompt
  lists_chars,         \* characters of the messages of the epistemic lists
  history_chars,       \* len(content) of each message of history, oldest first
  context_messages,    \* the prompt handed to client.chat_raw
  written_objects,     \* the JSON objects of a response text, in source order
  written_layout,      \* how the response text lays them out
  extracted,           \* what _extract_tool_calls returns for that text
  feedback,            \* the verifier feedback the last step pushed to the history
  sandbox_stops        \* how many times sm.stop(sandbox) was called

vars == <<profile, pc, max_steps, step, llm_calls, result, epistemic, tool_calls_made,
          evidence_counter, last_evidence_count, last_failure_type, length_nudges,
          parse_error_hits, verifier_rounds, pending_gradient, gradient_reminders,
          finalization_hits, stagnation_streak, force_tool_next, notes_required,
          move_repeat_streak, last_move_sig, negative_claim_task,
          official_domains_checked, independent_domains_checked,
          official_domain_hints, last_domain, last_query_family, last_source_class,
          recent_query_families, domain_same_streak, force_domain_shift,
          source_class_failure_streak, force_source_shift, force_move_change,
          class_failure_run,
          resp, tool_calls, notes_size,
          contract_status, decision, dispatched, trace_new, evidence_new, move_new,
          query_new, query_calls, notes_new, stream_pc, appending, file_writers,
          notes_chars, lists_chars, history_chars, context_messages,
          written_objects, written_layout, extracted, feedback, sandbox_stops>>

\* the inputs of the prompt assembly and the prompt
context_vars == <<notes_chars, lists_chars, history_chars, context_messages>>

\* a response text and the calls extracted from it
extract_vars == <<written_objects, written_layout, extracted>>

\* the state of the two streamer threads and of the artifact files
stream_vars == <<stream_pc, appending, file_writers>>

\* what no step of the loop changes
run_vars == <<profile, max_steps, negative_claim_task>>

search_vars == <<official_domains_checked, independent_domains_checked,
                 official_domain_hints, last_domain, last_query_family,
                 last_source_class, recent_query_families, domain_same_streak,
                 force_domain_shift, source_class_failure_streak,
                 force_source_shift, force_move_change,
                 class_failure_run>>

evidence_vars == <<tool_calls_made, evidence_counter, last_evidence_count,
                   last_failure_type>>

NoDecision == [made |-> FALSE, score |-> 0, score_before_cap |-> 0,
               cap_reasons |-> {}, instructions |-> <<>>,
               gradient |-> FALSE, missing |-> FALSE, wrong |-> FALSE]

\* the ids of evidence.jsonl (loop.py:400, 637)
evidence_ids == 1..evidence_counter

\* a tool event of trace.jsonl: the verifier's events carry no "step" key
ToolEvent(scope, s) == [scope |-> scope, has_step |-> scope # "verifier", step |-> s]

\* runtime_shell (loop.py:126-133) writes a tool event with scope runtime, step 0
RuntimeEvent == ToolEvent("runtime", 0)

\* no move yet (loop.py:402-403: None)
NoMove == [move_type |-> "none", domain |-> "none", query_family |-> "none"]

\* loop.py:365-366: the control loop and the two daemon threads it starts
Threads == {"loop", "log", "events"}

\* loop.py:115-117
ArtifactFiles == {"trace.jsonl", "container.log", "container_events.log"}

\* the profile of the runs in which a shell command of the runtime may raise
FaultProfiles == {"faults"}

\* no prompt built yet
NoContextMessages == [built |-> FALSE, pinned |-> 0, history |-> <<>>, intervention |-> 0]

\* no prompt is described: the sizes of the messages are not state of these runs
NoContext ==
  /\ notes_chars = 0
  /\ lists_chars = 0
  /\ history_chars = <<>>
  /\ context_messages = NoContextMessages

\* no verifier feedback was pushed
NoFeedback == [form |-> "none", score |-> 0]

\* nothing extracted yet
NotExtracted == [done |-> FALSE, calls |-> <<>>]

\* no response text is described
NoText ==
  /\ written_objects = <<>>
  /\ written_layout = "lines"
  /\ extracted = NotExtracted

\* the values of pc at which run_agent has ended, by return or by exception
Ended == {"done", "raised"}

\* loop.py:747 and 1546-1547: every way out of the try block, a return or an
\* exception, runs sm.stop(sandbox)
Finally ==
  sandbox_stops' = IF pc' \in Ended THEN sandbox_stops + 1 ELSE sandbox_stops

ControlInit(profiles) ==
  /\ profile \in profiles
  /\ feedback = NoFeedback
  /\ sandbox_stops = 0
  /\ stream_pc = [t \in {"log", "events"} |-> "start"]
  /\ appending = [t \in Threads |-> "none"]
  /\ file_writers = [f \in ArtifactFiles |-> {}]
  /\ pc = "start"
  /\ max_steps \in StepBudgets(profile)
  /\ negative_claim_task = (profile \in {"negative", "threshold"})
  /\ step = 0
  /\ llm_calls = 0
  /\ result = "none"
  /\ epistemic = EpistemicState
  /\ tool_calls_made = 0
  /\ evidence_counter = 0
  /\ last_evidence_count = 0
  /\ last_failure_type = "none"
  /\ length_nudges = 0
  /\ parse_error_hits = 0
  /\ verifier_rounds = 0
  /\ pending_gradient = FALSE
  /\ gradient_reminders = 0
  /\ finalization_hits = 0
  /\ stagnation_streak = 0
  /\ force_tool_next = FALSE
  /\ notes_required = FALSE
  /\ move_repeat_streak = 0
  /\ last_move_sig = NoMove
  /\ official_domains_checked = {}
  /\ independent_domains_checked = {}
  /\ official_domain_hints = {}
  /\ last_domain = "none"
  /\ last_query_family = "none"
  /\ last_source_class = "none"
  /\ recent_query_families = <<>>
  /\ domain_same_streak = 0
  /\ force_domain_shift = FALSE
  /\ source_class_failure_streak = 0
  /\ force_source_shift = FALSE
  /\ force_move_change = FALSE
  /\ class_failure_run = 0
  /\ resp = NoResp
  /\ tool_calls = <<>>
  /\ notes_size = 0
  /\ contract_status = "none"
  /\ decision = NoDecision
  /\ dispatched = FALSE
  /\ trace_new = <<>>
  /\ evidence_new = <<>>
  /\ move_new = <<>>
  /\ query_new = <<>>
  /\ query_calls = <<>>
  /\ notes_new = <<>>

InitFor(profiles) == ControlInit(profiles) /\ NoContext /\ NoText

\* the runs in which the shell commands of the runtime return
Init == InitFor(Profiles)

\* loop.py:299-310 and 491-496: notes_reset, the ledger files, the constraint
\* of a negative-claim task.  Both shell commands go through runtime_shell.
Setup ==
  /\ pc = "start"
  /\ pc' = "turn"
  /\ notes_size' = 1
  /\ trace_new' = <<RuntimeEvent, RuntimeEvent>>
  /\ epistemic' = IF negative_claim_task
                  THEN add_constraint(epistemic, "negative_claim_minima")
                  ELSE epistemic
  /\ UNCHANGED <<step, llm_calls, result, resp, tool_calls, contract_status,
                 decision, dispatched, evidence_new, move_new, query_new, notes_new, notes_required,
                 length_nudges, parse_error_hits, verifier_rounds, pending_gradient,
                 gradient_reminders, finalization_hits, stagnation_streak,
                 force_tool_next, move_repeat_streak, last_move_sig>>
  /\ UNCHANGED run_vars
  /\ UNCHANGED stream_vars
  /\ UNCHANGED context_vars
  /\ UNCHANGED extract_vars
  /\ feedback' = NoFeedback
  /\ UNCHANGED sandbox_stops
  /\ UNCHANGED evidence_vars
  /\ UNCHANGED search_vars
  /\ UNCHANGED query_calls

----------------------------------------------------------------------------
(* One iteration of the while loop (loop.py:749-1523) *)

\* variant of BudgetExceeded: the budget test off by one
BudgetExceededLate(s) == max_steps > 0 /\ s > max_steps + 1

\* loop.py:751
BudgetExceeded(s) == max_steps > 0 /\ s > max_steps

\* variant of NotesRequiredAt: the flag of the earlier turns is forgotten
NotesRequiredAtStepOnly(s, required) ==
  NOTES_UPDATE_INTERVAL > 0 /\ s > 0 /\ s % NOTES_UPDATE_INTERVAL = 0

\* loop.py:802-803
NotesRequiredAt(s, required) ==
  required \/ (NOTES_UPDATE_INTERVAL > 0 /\ s > 0 /\ s % NOTES_UPDATE_INTERVAL = 0)

\* loop.py:471-476 (max_steps > 0)
negative_claim_budget_steps ==
  IF (max_steps * NEGATIVE_CLAIM_THRESHOLD_TENTHS) \div 10 >= 1
  THEN (max_steps * NEGATIVE_CLAIM_THRESHOLD_TENTHS) \div 10
  ELSE 1

\* a section the runtime appends to notes.md (evidence_id 0: model output, no id)
ModelOutputSection == [kind |-> "model_output", evidence_id |-> 0]

StepSection(ev_id) == [kind |-> "step", evidence_id |-> ev_id]

\* loop.py:750-752 and 1525-1535: the budget is used up, the loop breaks
BudgetExit ==
  /\ pc = "turn"
  /\ BudgetExceeded(step + 1)
  /\ step' = step + 1
  /\ pc' = "done"
  /\ result' = IF epistemic.status # "VERIFIED"
               THEN "unresolved_step_budget"
               ELSE "no_answer_step_budget"
  /\ contract_status' = "none"
  /\ dispatched' = FALSE
  /\ trace_new' = <<>>
  /\ evidence_new' = <<>>
  /\ move_new' = <<>>
  /\ query_new' = <<>>
  /\ notes_new' = <<>>
  /\ UNCHANGED <<llm_calls, epistemic, resp, tool_calls, decision, notes_size,
                 notes_required, length_nudges, parse_error_hits, verifier_rounds,
                 pending_gradient, gradient_reminders, finalization_hits,
                 stagnation_streak, force_tool_next, move_repeat_streak,
                 last_move_sig>>
  /\ UNCHANGED run_vars
  /\ UNCHANGED stream_vars
  /\ UNCHANGED context_vars
  /\ UNCHANGED extract_vars
  /\ feedback' = NoFeedback
  /\ Finally
  /\ UNCHANGED evidence_vars
  /\ UNCHANGED search_vars
  /\ UNCHANGED query_calls

\* loop.py:750-881: the step is counted, the notes gate is armed, the model is
\* called once and answers
AgentStep ==
  /\ pc = "turn"
  /\ ~BudgetExceeded(step + 1)
  /\ step' = step + 1
  /\ notes_required' = NotesRequiredAt(step + 1, notes_required)
  /\ llm_calls' = llm_calls + 1
  /\ resp' \in Resps(profile)
  /\ pc' = "answered"
  /\ contract_status' = "none"
  /\ dispatched' = FALSE
  /\ trace_new' = <<>>
  /\ evidence_new' = <<>>
  /\ move_new' = <<>>
  /\ query_new' = <<>>
  /\ notes_new' = <<>>
  /\ UNCHANGED <<result, epistemic, tool_calls, decision, notes_size, length_nudges,
                 parse_error_hits, verifier_rounds, pending_gradient,
                 gradient_reminders, finalization_hits, stagnation_streak,
                 force_tool_next, move_repeat_streak, last_move_sig>>
  /\ UNCHANGED run_vars
  /\ UNCHANGED stream_vars
  /\ UNCHANGED context_vars
  /\ UNCHANGED extract_vars
  /\ feedback' = NoFeedback
  /\ Finally
  /\ UNCHANGED evidence_vars
  /\ UNCHANGED search_vars
  /\ UNCHANGED query_calls

\* the response is dropped when the loop goes back to its top
RespAt(next_pc) == IF next_pc = "turn" THEN NoResp ELSE resp

\* loop.py:883-920: the parser reports an error
ParseErrorTurn ==
  LET stop == ~resp.length /\ parse_error_hits + 1 >= PARSE_ERROR_LIMIT
      next_pc == IF stop THEN "done" ELSE "turn"
  IN
  /\ pc = "answered"
  /\ resp.kind = "parse_error"
  /\ length_nudges' = IF resp.length THEN length_nudges + 1 ELSE length_nudges
  /\ parse_error_hits' = IF resp.length THEN parse_error_hits ELSE parse_error_hits + 1
  \* log_model_output -> notes_append -> runtime_shell
  /\ notes_size' = notes_size + 1
  /\ notes_new' = <<ModelOutputSection>>
  /\ trace_new' = <<RuntimeEvent>>
  /\ pc' = next_pc
  /\ result' = IF stop THEN "format_errors" ELSE result
  /\ resp' = RespAt(next_pc)
  /\ UNCHANGED <<step, llm_calls, epistemic, tool_calls, contract_status, decision,
                 dispatched, evidence_new, move_new, query_new, notes_required, verifier_rounds,
                 pending_gradient, gradient_reminders, finalization_hits,
                 stagnation_streak, force_tool_next, move_repeat_streak,
                 last_move_sig>>
  /\ UNCHANGED run_vars
  /\ UNCHANGED stream_vars
  /\ UNCHANGED context_vars
  /\ UNCHANGED extract_vars
  /\ feedback' = NoFeedback
  /\ Finally
  /\ UNCHANGED evidence_vars
  /\ UNCHANGED search_vars
  /\ UNCHANGED query_calls

\* variant of EnforceContract: the finalization phrase is not looked at
EnforceContractByCount(tcm, fin) == tcm >= MIN_TOOL_CALLS

\* loop.py:955
EnforceContract(tcm, fin) == tcm >= MIN_TOOL_CALLS \/ fin

\* loop.py:957-970
StatusUpdateCheck(ep, su) ==
  CASE su = "none" ->
         add_constraint(SetStatus(ep, "UNRESOLVED"), "Missing STATUS_UPDATE")
    [] su = "UNRESOLVED" ->
         add_unresolved(SetStatus(ep, "UNRESOLVED"), "status_update_text")
    [] su = "BLOCKED" ->
         add_blocked(SetStatus(ep, "BLOCKED"), "status_update_text")
    [] su = "VERIFIED" /\ ep.constraints = {} -> set_verified(ep)
    [] OTHER -> ep

\* loop.py:958, 971-978
EvidenceUsedCheck(ep, cited, ids) ==
  IF cited # {}
  THEN IF cited \ ids # {}
       THEN add_constraint(SetStatus(ep, "UNRESOLVED"), "Unknown EVIDENCE_USED ids")
       ELSE ep
  ELSE add_constraint(SetStatus(ep, "UNRESOLVED"), "Missing EVIDENCE_USED")

\* loop.py:955-978
ContractCheck(ep, r, tcm, ids) ==
  IF EnforceContract(tcm, r.fin)
  THEN EvidenceUsedCheck(StatusUpdateCheck(ep, r.su), r.cited, ids)
  ELSE ep

\* variant of NegativeClaimCheck: the step threshold is not looked at
NegativeClaimCheckAnyStep(ep, s) ==
  IF /\ negative_claim_task
     /\ Cardinality(official_domains_checked) >= NEGATIVE_CLAIM_MIN_OFFICIAL
     /\ Cardinality(independent_domains_checked) >= NEGATIVE_CLAIM_MIN_INDEPENDENT
  THEN add_unresolved(SetStatus(ep, "UNRESOLVED"), "negative_claim_evidence_exhausted")
  ELSE ep

\* loop.py:979-985
NegativeClaimCheck(ep, s) ==
  IF /\ negative_claim_task
     /\ s >= negative_claim_budget_steps
     /\ Cardinality(official_domains_checked) >= NEGATIVE_CLAIM_MIN_OFFICIAL
     /\ Cardinality(independent_domains_checked) >= NEGATIVE_CLAIM_MIN_INDEPENDENT
  THEN add_unresolved(SetStatus(ep, "UNRESOLVED"), "negative_claim_evidence_exhausted")
  ELSE ep

\* variant of StagnationStreak: the status is not looked at
StagnationStreakAnyStatus(ep) ==
  IF evidence_counter = last_evidence_count THEN stagnation_streak + 1 ELSE 0

\* loop.py:987-993
StagnationStreak(ep) ==
  IF ep.status = "UNRESOLVED"
  THEN IF evidence_counter = last_evidence_count THEN stagnation_streak + 1 ELSE 0
  ELSE 0

\* variant of PreToolGate: the gate opens one tool call early
PreToolGateEarly(tcm) == tcm < MIN_TOOL_CALLS - 1

\* loop.py:1010
PreToolGate(tcm) == tcm < MIN_TOOL_CALLS

\* loop.py:925-947: a pending gradient turns a tool-less answer into a reminder
GradientReminded == pending_gradient /\ gradient_reminders + 1 <= GRADIENT_REMINDER_LIMIT

\* loop.py:925-1061: a response without a tool call, up to the verifier
NoToolTurn ==
  LET ep1 == ContractCheck(epistemic, resp, tool_calls_made, evidence_ids)
      ep2 == NegativeClaimCheck(ep1, step)
      streak == StagnationStreak(ep2)
      stagnant == streak >= STAGNATION_LIMIT /\ ~force_tool_next
      ep3 == IF stagnant THEN add_constraint(ep2, "Stagnation") ELSE ep2
      gated == PreToolGate(tool_calls_made)
      truncated == ~gated /\ resp.length
      next_pc == IF gated \/ (truncated /\ length_nudges + 1 <= LENGTH_NUDGE_LIMIT)
                 THEN "turn"
                 ELSE "verify"
  IN
  /\ pc = "answered"
  /\ resp.kind = "text"
  /\ IF GradientReminded
     THEN /\ gradient_reminders' = gradient_reminders + 1
          /\ pc' = "turn"
          /\ resp' = NoResp
          /\ UNCHANGED <<epistemic, notes_size, pending_gradient, stagnation_streak,
                         force_tool_next, length_nudges, contract_status, notes_new,
                         trace_new>>
     ELSE /\ gradient_reminders' =
               IF pending_gradient THEN gradient_reminders + 1 ELSE gradient_reminders
          /\ pending_gradient' =
               (pending_gradient /\ ~(gradient_reminders + 1 > GRADIENT_DROP_LIMIT))
          \* log_model_output(step, resp, "no_tool")
          /\ notes_size' = notes_size + 1
          /\ notes_new' = <<ModelOutputSection>>
          /\ trace_new' = <<RuntimeEvent>>
          /\ contract_status' = IF EnforceContract(tool_calls_made, resp.fin)
                                THEN ep1.status
                                ELSE "not_enforced"
          /\ epistemic' = ep3
          /\ stagnation_streak' = streak
          /\ force_tool_next' = (force_tool_next \/ stagnant)
          /\ length_nudges' = IF truncated THEN length_nudges + 1 ELSE length_nudges
          /\ pc' = next_pc
          /\ resp' = RespAt(next_pc)
  /\ UNCHANGED <<step, llm_calls, result, tool_calls, decision, dispatched,
                 evidence_new, move_new, query_new, notes_required, parse_error_hits, verifier_rounds,
                 finalization_hits, move_repeat_streak, last_move_sig>>
  /\ UNCHANGED run_vars
  /\ UNCHANGED stream_vars
  /\ UNCHANGED context_vars
  /\ UNCHANGED extract_vars
  /\ feedback' = NoFeedback
  /\ Finally
  /\ UNCHANGED evidence_vars
  /\ UNCHANGED search_vars
  /\ UNCHANGED query_calls

\* The JSON objects a response text holds: "flat" is an object without an
\* inner object ({"tool": .., "cmd": ..}, {"cmd": ..}), "nested" one that holds
\* its arguments in an inner object ({"tool": .., "args": {"cmd": ..}},
\* {"shell": {"cmd": ..}}); no command holds a brace.  In the layout "lines"
\* every object is a line of its own, in the layout "inline" other text
\* stands on the line before it ("ACTION: {..}").
Shapes == {"flat", "nested"}

Layouts == {"lines", "inline"}

\* loop.py:79-80: a match of \{.*?\} ends at the first closing brace, so that
\* a flat object is matched whole and a nested one up to the end of its inner
\* object; try_parse_tool_call finds a call in the first and none in the second
MatchParses(o) == o.shape = "flat"

\* loop.py:78-82: the calls of the matches that parse, in the order of the matches
ScannedCalls(objs) ==
  LET ok == SelectSeq(objs, MatchParses)
  IN [i \in 1..Len(ok) |-> ok[i].call]

\* loop.py:85-87 and parse.py:467-515: try_parse_tool_call on the whole text
\* returns the first line that is a JSON object of a call; without such a
\* line, the text from the first { to the last }, JSON only if the text holds
\* one object
WholeTextCall(objs, layout) ==
  IF objs = <<>> THEN <<>>
  ELSE IF layout = "lines" \/ Len(objs) = 1 THEN <<objs[1].call>>
  ELSE <<>>

\* loop.py:75-88
_extract_tool_calls(objs, layout) ==
  IF ScannedCalls(objs) # <<>> THEN ScannedCalls(objs) ELSE WholeTextCall(objs, layout)

\* variant of ExtractToolCalls: the calls come out last match first
ExtractToolCallsReversed(r) ==
  [i \in 1..Len(r.calls) |-> r.calls[Len(r.calls) + 1 - i]]

\* loop.py:876: the calls of the response, in the order of their matches; the
\* responses of the control loop write every call as a flat object on a line
ExtractToolCalls(r) ==
  _extract_tool_calls([i \in 1..Len(r.calls) |-> [shape |-> "flat", call |-> r.calls[i]]],
                      "lines")

\* loop.py:876, 922-923, 1141-1147: the response holds tool calls
ToolTurn ==
  /\ pc = "answered"
  /\ resp.kind = "tools"
  /\ parse_error_hits' = 0
  /\ tool_calls' = ExtractToolCalls(resp)
  /\ pc' = "calls"
  /\ UNCHANGED <<step, llm_calls, result, epistemic, resp, notes_size,
                 contract_status, decision, dispatched, trace_new, evidence_new, move_new, query_new,
                 notes_new, notes_required, length_nudges, verifier_rounds,
                 pending_gradient, gradient_reminders, finalization_hits,
                 stagnation_streak, force_tool_next, move_repeat_streak,
                 last_move_sig>>
  /\ UNCHANGED run_vars
  /\ UNCHANGED stream_vars
  /\ UNCHANGED context_vars
  /\ UNCHANGED extract_vars
  /\ feedback' = NoFeedback
  /\ Finally
  /\ UNCHANGED evidence_vars
  /\ UNCHANGED search_vars
  /\ UNCHANGED query_calls

----------------------------------------------------------------------------
(* One tool call of the response (loop.py:1147-1523) *)

\* the observation of a call the policy blocks (loop.py:1194-1197, 1231-1234)
BlockedObs(error_type) ==
  [error_type |-> error_type, error |-> TRUE, exit_code |-> "none", output |-> "empty"]

\* loop.py:1403-1416
ExecObs(tool, outcome) ==
  IF tool # "shell"
  THEN [error_type |-> "", error |-> TRUE, exit_code |-> "none", output |-> "empty"]
  ELSE CASE outcome = "raise" ->
              [error_type |-> "ValueError", error |-> TRUE, exit_code |-> "none",
               output |-> "empty"]
         [] outcome = "exit1" ->
              [error_type |-> "", error |-> FALSE, exit_code |-> "nonzero",
               output |-> "plain"]
         [] outcome = "out403" ->
              [error_type |-> "", error |-> FALSE, exit_code |-> "zero",
               output |-> "403"]
         [] OTHER ->
              [error_type |-> "", error |-> FALSE, exit_code |-> "zero",
               output |-> "plain"]

\* loop.py:602: the command contains "curl" or "wget"
UsesCurl == [c \in Cmds |-> HasWord(CmdWords(c), "curl") \/ HasWord(CmdWords(c), "wget")]

\* error types that start with "notes_" (loop.py:588)
NotesErrorTypes == {"notes_overwrite_blocked", "notes_update_required"}

\* variant of FailureType: the exit code is not looked at
FailureTypeErrorsOnly(obs, tool, cmd) ==
  IF obs.error_type \in NotesErrorTypes THEN ""
  ELSE IF obs.error_type # "" THEN obs.error_type
  ELSE IF obs.error THEN "tool_error"
  ELSE ""

\* loop.py:584-603; "" is the empty failure type
FailureType(obs, tool, cmd) ==
  LET base == IF obs.error_type \in NotesErrorTypes THEN ""
              ELSE IF obs.error_type # "" \/ obs.error
                   THEN (IF obs.error_type # "" THEN obs.error_type ELSE "tool_error")
              ELSE IF obs.exit_code = "nonzero" THEN "tool_error"
              ELSE ""
      blocked403 == IF tool = "shell" /\ base = "" /\ obs.output = "403"
                    THEN "access_blocked" ELSE base
  IN IF /\ tool = "shell"
        /\ blocked403 = ""
        /\ cmd \in Cmds /\ UsesCurl[cmd]
        /\ obs.output = "empty"
     THEN "empty_response"
     ELSE blocked403

\* variant of record_evidence_id: the counter is not advanced after the first id
record_evidence_id_reused(counter) == IF counter = 0 THEN 1 ELSE counter

\* loop.py:575-576, 638: the id record_evidence issues and returns
record_evidence_id(counter) == counter + 1

\* variant of SectionEvidenceId: the section names the id of the call before
SectionEvidenceIdStale(ev_id) == ev_id - 1

\* loop.py:1223, 1260, 1323, 1396, 1458: the EVIDENCE_ID line of the step section
SectionEvidenceId(ev_id) == ev_id

\* variant of RecordFailure: a call without a failure clears the status
RecordFailureClears(ep, ft) ==
  IF ft # "" THEN add_blocked(SetStatus(ep, "BLOCKED"), ft)
  ELSE SetStatus(ep, "IN_PROGRESS")

\* loop.py:605-618
RecordFailure(ep, ft) ==
  IF ft # "" THEN add_blocked(SetStatus(ep, "BLOCKED"), ft) ELSE ep

\* loop.py:1191: the signature holds the move type, so that the comparison
\* of the move types at 1478 adds nothing to the comparison of the signatures
MoveSig(move_type, d, qf) == [move_type |-> move_type, domain |-> d, query_family |-> qf]

\* variant of OverwriteBlocked: the guard is up only while notes are required
OverwriteBlockedWhenRequired(tool, notes_mode) ==
  notes_required /\ tool = "shell" /\ notes_mode = "overwrite"

\* loop.py:1193
OverwriteBlocked(tool, notes_mode) == tool = "shell" /\ notes_mode = "overwrite"

\* loop.py:1230
UpdateRequired(required, tool, notes_mode) ==
  required /\ tool = "shell" /\ notes_mode # "append"

\* variant of QueryMutationRequired: the block applies once the window is full
QueryMutationRequiredWhenFull(tool, qf, recent) ==
  /\ tool = "shell"
  /\ qf # "none"
  /\ \E i \in 1..Len(recent) : recent[i] = qf
  /\ Len(recent) >= QUERY_MUTATION_BUDGET

\* loop.py:1267
QueryMutationRequired(tool, qf, recent) ==
  /\ tool = "shell"
  /\ qf # "none"
  /\ \E i \in 1..Len(recent) : recent[i] = qf
  /\ Len(recent) < QUERY_MUTATION_BUDGET

\* loop.py:1332-1337
NegativeClaimMinimaMet(official, independent) ==
  /\ Cardinality(official) >= NEGATIVE_CLAIM_MIN_OFFICIAL
  /\ Cardinality(independent) >= NEGATIVE_CLAIM_MIN_INDEPENDENT

ForceDomainShift(d) ==
  \/ force_domain_shift
  \/ /\ negative_claim_task /\ d # "none" /\ last_domain = d
     /\ domain_same_streak >= DOMAIN_SHIFT_LIMIT
     /\ ~NegativeClaimMinimaMet(official_domains_checked, independent_domains_checked)

\* loop.py:1339
DomainShiftRequired(d, forced) ==
  negative_claim_task /\ forced /\ d # "none" /\ last_domain = d

\* loop.py:1475-1476: a deque of at most max(QUERY_MUTATION_BUDGET, 1) families
RememberQuery(recent, qf) ==
  IF qf = "none" \/ (\E i \in 1..Len(recent) : recent[i] = qf) THEN recent
  ELSE IF Len(recent) < QUERY_MUTATION_BUDGET THEN Append(recent, qf)
  ELSE Append(Tail(recent), qf)

\* loop.py:649-672: the record record_move appends to move_ledger.jsonl
MoveRecord(s, url, d, qf, source_class, move_type, ft, outcome) ==
  [step |-> s, url |-> url, domain |-> d, query_family |-> qf,
   source_class |-> source_class, move_type |-> move_type, failure_type |-> ft,
   outcome |-> outcome]

\* loop.py:674-692: the record record_query appends to query_ledger.jsonl
QueryRecord(s, qf, outcome) == [step |-> s, query_family |-> qf, outcome |-> outcome]

\* loop.py:1422-1423, 1309, 1318, 1381, 1392: the outcome written to the ledgers
LedgerOutcome(blocked, ft) ==
  IF blocked THEN "blocked" ELSE IF ft = "" THEN "ok" ELSE "failed"

\* the log of the agent shell calls that had a query family keeps three calls
RememberCall(log, entry) ==
  IF Len(log) < 3 THEN Append(log, entry) ELSE Append(Tail(log), entry)

\* variant of FinalWrite: the finalization phrase of the response is not looked at
FinalWriteAnyIntent(blocked, tool, fin, cmd) ==
  ~blocked /\ tool = "shell" /\ WritesFinal[cmd]

\* loop.py:1512, reached by the calls that no policy blocks
FinalWrite(blocked, tool, fin, cmd) ==
  ~blocked /\ tool = "shell" /\ fin /\ WritesFinal[cmd]

\* the observation of the call: a policy block, or what the tool returns
CallObs(block, tool, outcome) ==
  IF block # "none" THEN BlockedObs(block) ELSE ExecObs(tool, outcome)

\* loop.py:1193, 1230, 1267, 1339: the policy that blocks the call, if any
PolicyBlock(tool, notes_mode, d, qf, forced) ==
  IF OverwriteBlocked(tool, notes_mode) THEN "notes_overwrite_blocked"
  ELSE IF UpdateRequired(notes_required, tool, notes_mode) THEN "notes_update_required"
  ELSE IF QueryMutationRequired(tool, qf, recent_query_families)
       THEN "query_mutation_required"
  ELSE IF DomainShiftRequired(d, forced) THEN "domain_shift_required"
  ELSE "none"

\* variant of MoveChange: the status is not looked at
MoveChangeAnyStatus(flag, repeat, status, move_sig, last_sig) ==
  IF repeat >= MOVE_REPEAT_LIMIT THEN TRUE
  ELSE IF move_sig # last_sig THEN FALSE
  ELSE flag

\* loop.py:1478-1482 and 1502-1503: force_move_change after an executed call
MoveChange(flag, repeat, status, move_sig, last_sig) ==
  IF status = "UNRESOLVED" /\ repeat >= MOVE_REPEAT_LIMIT THEN TRUE
  ELSE IF move_sig # last_sig THEN FALSE
  ELSE flag

\* variant of Bookkeeping: the bookkeeping also runs after a blocked call
BookkeepingAlways(blocked, before, after) == after

\* loop.py:1228, 1265, 1329, 1401: a blocked call ends in continue, which
\* skips the search bookkeeping of 1460-1493
Bookkeeping(blocked, before, after) == IF blocked THEN before ELSE after

\* loop.py:1494-1500: force_source_shift after an executed call
SourceShift(flag, streak, ft, source_class, last_sc) ==
  IF source_class # last_sc THEN FALSE
  ELSE flag \/ (streak >= FAILURE_ESCALATION_LIMIT /\ ft # "")

\* loop.py:1147-1523: one call of the response, from its classification to
\* the bookkeeping that follows its observation
ProcessCall ==
  /\ pc = "calls"
  /\ tool_calls # <<>>
  /\ ~NotesAppendDenied[Head(tool_calls).cmd]
  /\ \E outcome \in ExecOutcomes(profile) :
    LET tool == Head(tool_calls).tool
        cmd == Head(tool_calls).cmd
        notes_mode == IF tool = "shell" THEN NotesMode[cmd] ELSE "none"
        d == IF tool = "shell" THEN PrimaryUrl[cmd].domain ELSE "none"
        qf == IF tool = "shell" THEN PrimaryUrl[cmd].query_family ELSE "none"
        source_class == _classify_source(d, official_domain_hints)
        move_type == _classify_move(d, qf, source_class, last_domain,
                                    last_query_family, last_source_class)
        move_sig == MoveSig(move_type, d, qf)
        notes_block == OverwriteBlocked(tool, notes_mode)
                         \/ UpdateRequired(notes_required, tool, notes_mode)
        query_block == ~notes_block
                         /\ QueryMutationRequired(tool, qf, recent_query_families)
        \* 1332-1337 is reached by the calls that pass the first three policies
        forced == IF notes_block \/ query_block THEN force_domain_shift
                  ELSE ForceDomainShift(d)
        block == PolicyBlock(tool, notes_mode, d, qf, forced)
        blocked == block # "none"
        obs == CallObs(block, tool, outcome)
        shell_called == ~blocked /\ tool = "shell"
        ran == shell_called /\ outcome \in {"ok", "out403"}
        ft == FailureType(obs, tool, cmd)
        ev_id == record_evidence_id(evidence_counter)
        ep1 == RecordFailure(epistemic, ft)
        \* 1460-1474
        hints == IF negative_claim_task /\ ~_is_search_domain(d)
                    /\ official_domain_hints = {}
                 THEN {d} ELSE official_domain_hints
        is_official == _is_official_domain(d, hints)
                         \/ source_class \in {"official", "regulatory", "registry"}
        \* 1478-1482
        repeat == IF move_sig = last_move_sig THEN move_repeat_streak + 1 ELSE 0
        \* 1489-1501
        sc_streak == IF last_source_class = source_class /\ ft # ""
                     THEN source_class_failure_streak + 1 ELSE 0
        ep2 == IF sc_streak >= FAILURE_ESCALATION_LIMIT /\ ft # ""
               THEN add_constraint(ep1, "Source class stalled") ELSE ep1
        \* 1502-1506
        ep3 == IF ep2.status = "UNRESOLVED" /\ repeat >= MOVE_REPEAT_LIMIT
               THEN add_constraint(ep2, "Move stagnation") ELSE ep2
        \* record_move: 1299, 1371, 1424; record_query: 1313, 1385-1386, 1438-1439
        outcome_written == LedgerOutcome(blocked, ft)
        moves == IF notes_block THEN <<>>
                 ELSE <<MoveRecord(step,
                                   IF tool = "shell" THEN PrimaryUrlWord[cmd] ELSE "",
                                   d, qf, source_class, move_type, ft,
                                   outcome_written)>>
        queries == IF notes_block \/ qf = "none" THEN <<>>
                   ELSE <<QueryRecord(step, qf, outcome_written)>>
        final_write == FinalWrite(blocked, tool, resp.fin, cmd)
        stop == final_write /\ finalization_hits + 1 >= FINALIZATION_LIMIT
        next_pc == IF stop THEN "done"
                   ELSE IF Len(tool_calls) = 1 THEN "turn" ELSE "calls"
    IN
    \* loop.py:1151-1180
    /\ pending_gradient' = FALSE
    /\ gradient_reminders' = IF pending_gradient THEN 0 ELSE gradient_reminders
    \* trace_event, record_evidence, tool_calls_made
    /\ evidence_counter' = ev_id
    /\ evidence_new' = <<[id |-> ev_id, step |-> step, error_type |-> obs.error_type,
                          error |-> obs.error, exit_code |-> obs.exit_code,
                          failure_type |-> ft]>>
    /\ last_failure_type' = IF ft # "" THEN ft ELSE "none"
    /\ move_new' = moves
    /\ query_new' = queries
    /\ query_calls' =
         IF tool = "shell" /\ qf # "none"
         THEN RememberCall(query_calls,
                           [query_family |-> qf,
                            window |-> Len(recent_query_families),
                            error_type |-> obs.error_type,
                            records |-> queries])
         ELSE query_calls
    /\ tool_calls_made' = tool_calls_made + 1
    /\ last_evidence_count' = ev_id
    /\ force_domain_shift' =
         IF blocked THEN forced ELSE (forced /\ (d = "none" \/ last_domain = d))
    /\ IF blocked
       THEN /\ epistemic' = ep1
            /\ UNCHANGED <<notes_required, official_domain_hints,
                           last_query_family, last_source_class,
                           force_source_shift, force_move_change,
                           class_failure_run>>
       ELSE /\ epistemic' = ep3
            /\ force_move_change' =
                 MoveChange(force_move_change, repeat, ep2.status, move_sig,
                            last_move_sig)
            /\ notes_required' = (notes_required /\ ~(tool = "shell" /\ notes_mode = "append"))
            /\ official_domain_hints' = IF d # "none" THEN hints ELSE official_domain_hints
            /\ last_query_family' = IF qf # "none" THEN qf ELSE last_query_family
            /\ force_source_shift' =
                 SourceShift(force_source_shift, sc_streak, ft, source_class,
                             last_source_class)
            /\ class_failure_run' =
                 IF ft = "" THEN 0
                 ELSE IF source_class = last_source_class THEN class_failure_run + 1
                 ELSE 1
            /\ last_source_class' = source_class
    \* 1460-1493, skipped by the continue of a blocked call
    /\ official_domains_checked' =
         Bookkeeping(blocked, official_domains_checked,
                     IF d # "none" /\ is_official
                     THEN official_domains_checked \cup {d}
                     ELSE official_domains_checked)
    /\ independent_domains_checked' =
         Bookkeeping(blocked, independent_domains_checked,
                     IF d # "none" /\ ~is_official /\ ~_is_search_domain(d)
                     THEN independent_domains_checked \cup {d}
                     ELSE independent_domains_checked)
    /\ domain_same_streak' =
         Bookkeeping(blocked, domain_same_streak,
                     IF d = "none" THEN domain_same_streak
                     ELSE IF last_domain = d THEN domain_same_streak + 1 ELSE 0)
    /\ last_domain' =
         Bookkeeping(blocked, last_domain, IF d # "none" THEN d ELSE last_domain)
    /\ recent_query_families' =
         Bookkeeping(blocked, recent_query_families,
                     RememberQuery(recent_query_families, qf))
    /\ move_repeat_streak' = Bookkeeping(blocked, move_repeat_streak, repeat)
    /\ last_move_sig' = Bookkeeping(blocked, last_move_sig, move_sig)
    /\ source_class_failure_streak' =
         Bookkeeping(blocked, source_class_failure_streak, sc_streak)
    \* tb.shell, then notes_append of the step section
    /\ dispatched' = shell_called
    /\ notes_size' =
         (IF ran THEN NotesSizeAfter(cmd, notes_size) ELSE notes_size) + 1
    /\ notes_new' = <<StepSection(SectionEvidenceId(ev_id))>>
    /\ trace_new' = <<ToolEvent("agent", step), RuntimeEvent>>
    /\ force_tool_next' = FALSE
    /\ stagnation_streak' = 0
    /\ finalization_hits' = IF final_write THEN finalization_hits + 1 ELSE finalization_hits
    /\ tool_calls' = Tail(tool_calls)
    /\ pc' = next_pc
    /\ resp' = RespAt(next_pc)
    /\ result' = IF stop THEN "finalization_stop" ELSE result
  /\ UNCHANGED <<step, llm_calls, contract_status, decision, length_nudges,
                 parse_error_hits, verifier_rounds>>
  /\ UNCHANGED run_vars
  /\ UNCHANGED stream_vars
  /\ UNCHANGED context_vars
  /\ UNCHANGED extract_vars
  /\ feedback' = NoFeedback
  /\ Finally

----------------------------------------------------------------------------
(* The verifier round (loop.py:1063-1139, verifier.py:646-873) *)

\* verifier.py:832-839
CapReasons(j) ==
  (IF j.unknown_checks > 0 THEN {"unknown_checks_present"} ELSE {})
  \cup (IF j.n_domains < MIN_CITATION_DOMAINS
        THEN {"insufficient_independent_citations"} ELSE {})
  \cup (IF j.need_coverage /\ ~j.coverage_ok THEN {"missing_coverage_proof"} ELSE {})

\* variant of CapScore: the cap is not applied
CapScoreIdentity(score) == score

\* verifier.py:855
CapScore(score) == Min(score, CAP_SCORE)

JudgeInstructions(n) == [i \in 1..n |-> "judge_instruction"]

\* variant of CannedInstructions: unknown checks get no instruction
CannedInstructionsNoUnknown(caps) ==
  (IF "insufficient_independent_citations" \in caps
   THEN <<"add_independent_citations">> ELSE <<>>)
  \o (IF "missing_coverage_proof" \in caps THEN <<"state_scope_and_coverage">> ELSE <<>>)

\* verifier.py:858-869
CannedInstructions(caps) ==
  (IF "insufficient_independent_citations" \in caps
   THEN <<"add_independent_citations">> ELSE <<>>)
  \o (IF "missing_coverage_proof" \in caps THEN <<"state_scope_and_coverage">> ELSE <<>>)
  \o (IF "unknown_checks_present" \in caps THEN <<"resolve_unknown_checks">> ELSE <<>>)

Prefix(seq, n) == SubSeq(seq, 1, Min(n, Len(seq)))

SeqRange(seq) == {seq[i] : i \in 1..Len(seq)}

\* verifier.py:784-873: the decision deep_verify returns
deep_verify(j) ==
  LET caps == CapReasons(j)
  IN [made |-> TRUE,
      score |-> IF caps # {} THEN CapScore(j.score) ELSE j.score,
      score_before_cap |-> j.score,
      cap_reasons |-> caps,
      instructions |->
        IF caps # {}
        THEN Prefix(JudgeInstructions(j.n_instructions) \o CannedInstructions(caps),
                    MAX_INSTRUCTIONS)
        ELSE JudgeInstructions(j.n_instructions),
      gradient |-> j.gradient,
      missing |-> j.missing,
      wrong |-> j.wrong]

\* verifier.py:481-522: the mini-agents run their commands through tb.shell
RECURSIVE MiniNotesSize(_, _, _)
MiniNotesSize(run, i, size) ==
  IF i > Len(run) THEN size
  ELSE MiniNotesSize(run, i + 1, NotesSizeAfter(run[i], size))

\* loop.py:1063-1079: the round is counted and deep_verify returns its decision
Verify ==
  /\ pc = "verify"
  /\ \E j \in JudgeInputs(profile), run \in MiniRuns(profile) :
       /\ decision' = deep_verify(j)
       /\ notes_size' = MiniNotesSize(run, 1, notes_size)
       /\ trace_new' = [i \in 1..Len(run) |-> ToolEvent("verifier", 0)]
  /\ verifier_rounds' = verifier_rounds + 1
  /\ pc' = "decided"
  /\ notes_new' = <<>>
  /\ UNCHANGED <<step, llm_calls, result, epistemic, resp, tool_calls,
                 contract_status, dispatched, evidence_new, move_new, query_new, notes_required,
                 length_nudges, parse_error_hits, pending_gradient,
                 gradient_reminders, finalization_hits, stagnation_streak,
                 force_tool_next, move_repeat_streak, last_move_sig>>
  /\ UNCHANGED run_vars
  /\ UNCHANGED stream_vars
  /\ UNCHANGED context_vars
  /\ UNCHANGED extract_vars
  /\ feedback' = NoFeedback
  /\ Finally
  /\ UNCHANGED evidence_vars
  /\ UNCHANGED search_vars
  /\ UNCHANGED query_calls

\* variant of Accepts: the accept test off by one
AcceptsStrictly(score) == score > ACCEPT_SCORE

\* loop.py:1091
Accepts(score) == score >= ACCEPT_SCORE

\* loop.py:1081-1089
RecordRejection(ep, d) ==
  IF d.score < ACCEPT_SCORE
  THEN [ep EXCEPT !.status = "UNRESOLVED",
                  !.constraints = @ \cup SeqRange(Prefix(d.instructions,
                                                         MAX_RECORDED_INSTRUCTIONS)),
                  !.unresolved = @ \cup d.cap_reasons]
  ELSE ep

\* loop.py:1112-1129
RecordGradient(ep, d) ==
  IF d.gradient /\ d.score < ACCEPT_SCORE
  THEN [ep EXCEPT !.status = "UNRESOLVED",
                  !.constraints = @ \cup (IF d.missing THEN {"gradient_missing"} ELSE {})
                                    \cup (IF d.wrong THEN {"gradient_wrong"} ELSE {})]
  ELSE ep

\* verifier.py:876-901: the feedback is the JSON object of the judge as the
\* judge wrote it, with the judge's own "score", when there is one; otherwise
\* a text that starts with the score of the decision
format_verifier_feedback(d) ==
  IF d.gradient THEN [form |-> "gradient_json", score |-> d.score_before_cap]
  ELSE [form |-> "text", score |-> d.score]

\* variant of VerificationBudgetExhausted: the budget test off by one
VerificationBudgetExhaustedLate(rounds) == rounds > max_verifier_rounds

\* loop.py:1094
VerificationBudgetExhausted(rounds) == rounds >= max_verifier_rounds

\* variant of AfterDecision: the loop goes on after an accepted answer
AfterDecisionContinue(accepted, exhausted) == IF exhausted THEN "done" ELSE "turn"

\* loop.py:1093, 1097, 1139: return on acceptance and on an exhausted budget,
\* otherwise continue
AfterDecision(accepted, exhausted) == IF accepted \/ exhausted THEN "done" ELSE "turn"

\* loop.py:1081-1139: what the loop does with the decision
Decide ==
  LET accepted == Accepts(decision.score)
      exhausted == ~accepted /\ VerificationBudgetExhausted(verifier_rounds)
      ep1 == RecordRejection(epistemic, decision)
      next_pc == AfterDecision(accepted, exhausted)
      fed_back == next_pc = "turn" /\ decision.gradient
  IN
  /\ pc = "decided"
  /\ epistemic' = IF accepted THEN set_verified(ep1)
                  ELSE IF exhausted
                  THEN add_unresolved(SetStatus(ep1, "UNRESOLVED"),
                                      "verification_budget_exhausted")
                  ELSE RecordGradient(ep1, decision)
  /\ result' = IF accepted THEN "accepted"
               ELSE IF exhausted THEN "verification_budget"
               ELSE result
  /\ pc' = next_pc
  /\ resp' = RespAt(next_pc)
  /\ decision' = IF next_pc = "turn" THEN NoDecision ELSE decision
  /\ pending_gradient' = (pending_gradient \/ fed_back)
  /\ gradient_reminders' = IF fed_back THEN 0 ELSE gradient_reminders
  /\ UNCHANGED <<step, llm_calls, tool_calls, notes_size, contract_status,
                 dispatched, trace_new, evidence_new, move_new, query_new, notes_new, notes_required,
                 length_nudges, parse_error_hits, verifier_rounds, finalization_hits,
                 stagnation_streak, force_tool_next, move_repeat_streak,
                 last_move_sig>>
  /\ UNCHANGED run_vars
  /\ UNCHANGED stream_vars
  /\ UNCHANGED context_vars
  /\ UNCHANGED extract_vars
  /\ feedback' = IF next_pc = "turn" THEN format_verifier_feedback(decision)
                  ELSE NoFeedback
  /\ Finally
  /\ UNCHANGED evidence_vars
  /\ UNCHANGED search_vars
  /\ UNCHANGED query_calls

----------------------------------------------------------------------------
(* The value run_agent returns *)

\* loop.py:951-953: the text handed to deep_verify as the answer is the final
\* payload of the response if it has one, else the raw response ("resp")
AnswerText(r) == IF r.final THEN "final" ELSE "resp"

\* a returned string: whether it starts with UNRESOLVED:, its fixed sentence,
\* the epistemic state it lists (Status, Constraints, Blocked, Unresolved),
\* the response text it carries and the files it points to
Returned(unresolved, message, lists, body, pointers) ==
  [prefix |-> IF unresolved THEN "UNRESOLVED:" ELSE "", message |-> message,
   lists |-> lists, body |-> body, pointers |-> pointers]

\* loop.py:919, 1093, 1097-1101, 1523, 1525-1535: the string returned for the
\* way the run ended ("none": the run has not returned)
ReturnValue(res, ep) ==
  CASE res = "accepted" -> Returned(FALSE, "", {}, "resp", {})
    [] res = "verification_budget" ->
         Returned(FALSE,
                  "Verifier could not confirm correctness within the verification budget.",
                  {}, "resp", {"/work/trace.jsonl", "/work/notes.md"})
    [] res = "format_errors" ->
         Returned(FALSE,
                  "Stopped due to repeated format errors (missing THOUGHT/ACTION).",
                  {}, "", {"/work/notes.md"})
    [] res = "finalization_stop" ->
         Returned(FALSE,
                  "Final deliverables appear to be written under /work. Stopping to prevent a tool loop.",
                  {}, "", {})
    [] res = "unresolved_step_budget" ->
         Returned(TRUE,
                  "Evidence requirements not satisfied within the step budget.",
                  {ep}, "", {"/work/notes.md", "/work/evidence.jsonl"})
    [] res = "no_answer_step_budget" ->
         Returned(FALSE,
                  "Did not reach a verifiable final answer within the step budget.",
                  {}, "", {"/work/notes.md"})
    [] OTHER -> Returned(FALSE, "", {}, "", {})

----------------------------------------------------------------------------
(* The threads that write the artifact files (loop.py:120-124, 328-366).   *)
(* The control loop is reduced to its calls of trace_event; each step is   *)
(* one open, or the write and close that follows it.                       *)

\* what the steps of the control loop change
loop_vars == <<pc, step, llm_calls, result, epistemic, resp, tool_calls, notes_size,
               contract_status, decision, dispatched, trace_new, evidence_new,
               move_new, query_new, query_calls, notes_new, notes_required,
               length_nudges, parse_error_hits, verifier_rounds, pending_gradient,
               gradient_reminders, finalization_hits, stagnation_streak,
               force_tool_next, move_repeat_streak, last_move_sig, feedback,
               sandbox_stops>>

\* the variables of the control loop: the streamers do not touch them
control_vars == <<loop_vars, run_vars, evidence_vars, search_vars, context_vars,
                  extract_vars>>

\* thread t opens file f for append
OpenAppend(t, f) ==
  /\ appending' = [appending EXCEPT ![t] = f]
  /\ file_writers' = [file_writers EXCEPT ![f] = @ \cup {t}]

\* thread t closes the file it has open
CloseFile(t) ==
  /\ appending' = [appending EXCEPT ![t] = "none"]
  /\ UNCHANGED file_writers

\* loop.py:120-124: trace_event, called by the control loop
LoopTraceEvent ==
  /\ appending["loop"] = "none"
  /\ OpenAppend("loop", "trace.jsonl")
  /\ UNCHANGED stream_pc
  /\ UNCHANGED control_vars

LoopTraceWritten ==
  /\ appending["loop"] = "trace.jsonl"
  /\ CloseFile("loop")
  /\ UNCHANGED stream_pc
  /\ UNCHANGED control_vars

\* loop.py:330-331: the log streamer opens container.log and keeps it open
LogStreamOpen ==
  /\ stream_pc["log"] = "start"
  /\ stream_pc' = [stream_pc EXCEPT !["log"] = "streaming"]
  /\ OpenAppend("log", "container.log")
  /\ UNCHANGED control_vars

\* loop.py:332-336: the stream of chunks ends with the container
LogStreamEnd ==
  /\ stream_pc["log"] = "streaming"
  /\ stream_pc' = [stream_pc EXCEPT !["log"] = "stopped"]
  /\ CloseFile("log")
  /\ UNCHANGED control_vars

\* loop.py:337-340: containers.get, the open or the stream raises; the
\* handler appends a log_stream_error line to container_events.log
LogStreamError ==
  /\ stream_pc["log"] \in {"start", "streaming"}
  /\ stream_pc' = [stream_pc EXCEPT !["log"] = "reporting"]
  /\ OpenAppend("log", "container_events.log")
  /\ UNCHANGED control_vars

\* loop.py:340-342
LogStreamReported ==
  /\ stream_pc["log"] = "reporting"
  /\ stream_pc' = [stream_pc EXCEPT !["log"] = "stopped"]
  /\ CloseFile("log")
  /\ UNCHANGED control_vars

\* loop.py:346-351: an event arrives and is appended to container_events.log
EventStreamEvent ==
  /\ stream_pc["events"] \in {"start", "streaming"}
  /\ stream_pc' = [stream_pc EXCEPT !["events"] = "writing"]
  /\ OpenAppend("events", "container_events.log")
  /\ UNCHANGED control_vars

\* loop.py:352-355: the write failed (continue), or the event is passed to
\* trace_event, which appends it to trace.jsonl
EventStreamWritten ==
  /\ stream_pc["events"] = "writing"
  /\ \/ /\ stream_pc' = [stream_pc EXCEPT !["events"] = "streaming"]
        /\ CloseFile("events")
     \/ /\ stream_pc' = [stream_pc EXCEPT !["events"] = "tracing"]
        /\ OpenAppend("events", "trace.jsonl")
  /\ UNCHANGED control_vars

\* loop.py:355-357
EventStreamTraced ==
  /\ stream_pc["events"] = "tracing"
  /\ stream_pc' = [stream_pc EXCEPT !["events"] = "streaming"]
  /\ CloseFile("events")
  /\ UNCHANGED control_vars

\* loop.py:358-361: the event stream raises; the handler appends an
\* event_stream_error line to container_events.log
EventStreamError ==
  /\ stream_pc["events"] \in {"start", "streaming"}
  /\ stream_pc' = [stream_pc EXCEPT !["events"] = "reporting"]
  /\ OpenAppend("events", "container_events.log")
  /\ UNCHANGED control_vars

\* loop.py:361-363
EventStreamReported ==
  /\ stream_pc["events"] = "reporting"
  /\ stream_pc' = [stream_pc EXCEPT !["events"] = "stopped"]
  /\ CloseFile("events")
  /\ UNCHANGED control_vars

StreamNext ==
  \/ LoopTraceEvent
  \/ LoopTraceWritten
  \/ LogStreamOpen
  \/ LogStreamEnd
  \/ LogStreamError
  \/ LogStreamReported
  \/ EventStreamEvent
  \/ EventStreamWritten
  \/ EventStreamTraced
  \/ EventStreamError
  \/ EventStreamReported

\* the threads from the moment they are started, for one run
StreamInit == Init /\ profile = "judge"

StreamSpec == StreamInit /\ [][StreamNext]_vars

----------------------------------------------------------------------------
(* A shell command of the runtime that raises while a call is processed.   *)
(* runtime_shell (loop.py:126-133) calls tb.shell outside any try block,   *)
(* so the exception of the deny check (tools.py:166-169, 246) or of the    *)
(* backend exec (tools.py:251) leaves run_agent.  What the call had        *)
(* written before notes_append (its trace event, its evidence and ledger   *)
(* records) is not put into the *_new variables, which describe the steps  *)
(* that run to their end.                                                  *)

\* loop.py:1217, 1254, 1317, 1391, 1453: notes_append raises
RuntimeShellRaises ==
  /\ pc = "calls"
  /\ tool_calls # <<>>
  /\ profile \in FaultProfiles
  /\ pc' = "raised"
  /\ UNCHANGED <<step, llm_calls, result, epistemic, resp, tool_calls, notes_size,
                 contract_status, decision, dispatched, trace_new, evidence_new,
                 move_new, query_new, query_calls, notes_new, notes_required,
                 length_nudges, parse_error_hits, verifier_rounds, pending_gradient,
                 gradient_reminders, finalization_hits, stagnation_streak,
                 force_tool_next, move_repeat_streak, last_move_sig>>
  /\ UNCHANGED run_vars
  /\ UNCHANGED stream_vars
  /\ UNCHANGED context_vars
  /\ UNCHANGED extract_vars
  /\ feedback' = NoFeedback
  /\ Finally
  /\ UNCHANGED evidence_vars
  /\ UNCHANGED search_vars

\* loop.py:299-310: notes_reset or the command that creates the ledger files
\* raises (tools.py:166-169, 246, 251); these lines are before the try block
\* of loop.py:747, so the exception leaves run_agent without sm.stop
SetupRaises ==
  /\ pc = "start"
  /\ profile \in FaultProfiles
  /\ pc' = "raised"
  /\ UNCHANGED <<step, llm_calls, result, epistemic, resp, tool_calls, notes_size,
                 contract_status, decision, dispatched, trace_new, evidence_new,
                 move_new, query_new, query_calls, notes_new, notes_required,
                 length_nudges, parse_error_hits, verifier_rounds, pending_gradient,
                 gradient_reminders, finalization_hits, stagnation_streak,
                 force_tool_next, move_repeat_streak, last_move_sig>>
  /\ UNCHANGED run_vars
  /\ UNCHANGED stream_vars
  /\ UNCHANGED context_vars
  /\ UNCHANGED extract_vars
  /\ UNCHANGED <<feedback, sandbox_stops>>
  /\ UNCHANGED evidence_vars
  /\ UNCHANGED search_vars

----------------------------------------------------------------------------
Next ==
  \/ Setup
  \/ BudgetExit
  \/ AgentStep
  \/ ParseErrorTurn
  \/ NoToolTurn
  \/ ToolTurn
  \/ ProcessCall
  \/ Verify
  \/ Decide

Spec == Init /\ [][Next]_vars

\* the loop is sequential code: whatever step is enabled is taken
FairSpec == Spec /\ WF_vars(Next)

\* the steps of the runs in which a shell command of the runtime may raise
FaultNext ==
  \/ Setup
  \/ BudgetExit
  \/ AgentStep
  \/ ParseErrorTurn
  \/ NoToolTurn
  \/ ToolTurn
  \/ ProcessCall
  \/ Verify
  \/ Decide
  \/ RuntimeShellRaises
  \/ SetupRaises

FaultInit == InitFor(FaultProfiles)

FaultSpec == FaultInit /\ [][FaultNext]_vars

----------------------------------------------------------------------------
(* Prompt assembly (loop.py:182-231 and 802-837), one turn of it taken on  *)
(* its own.  A message is the number of characters of its content, in a    *)
(* scaled unit; the inputs are the size of notes.md, of the messages of    *)
(* the epistemic lists and of each history message.  CONTEXT_MAX_CHARS and *)
(* ACTION_TAIL_MESSAGES are environment settings (20000 and 10 unless      *)
(* set), here small values in the same unit.                               *)

\* loop.py:35
CONTEXT_MAX_CHARS == 5
\* loop.py:36
ACTION_TAIL_MESSAGES == 2
\* loop.py:818-821: the length of the intervention message
InterventionChars == 1

\* the largest notes.md, list messages, history and history message described
MaxNotesChars == 5
MaxListsChars == 2
MaxHistory == 3
MaxMessageChars == 2

RECURSIVE SumChars(_)
\* loop.py:225-226: _total_chars
SumChars(items) == IF items = <<>> THEN 0 ELSE Head(items) + SumChars(Tail(items))

\* loop.py:805: history[-ACTION_TAIL_MESSAGES:]
HistoryTail(history) ==
  IF Len(history) <= ACTION_TAIL_MESSAGES THEN history
  ELSE SubSeq(history, Len(history) - ACTION_TAIL_MESSAGES + 1, Len(history))

\* loop.py:192-221: the messages before the history: the system prompt, the
\* state banner and the task (1 together), the pinned notes (the warning and
\* "<empty>" when notes.md is empty) and the messages of the lists
PinnedChars(notes, lists) == 1 + (IF notes = 0 THEN 1 ELSE notes) + lists

RECURSIVE TrimHistory(_, _, _)
\* loop.py:228-230: the oldest history message is dropped while the total exceeds
\* max_chars and a history message is left
TrimHistory(pinned, action_layer, max_chars) ==
  IF pinned + SumChars(action_layer) > max_chars /\ action_layer # <<>>
  THEN TrimHistory(pinned, Tail(action_layer), max_chars)
  ELSE action_layer

\* loop.py:182-231
build_context(history, notes, max_chars, lists) ==
  [built |-> TRUE,
   pinned |-> PinnedChars(notes, lists),
   history |-> TrimHistory(PinnedChars(notes, lists), history, max_chars),
   intervention |-> 0]

\* loop.py:833: the sum over the messages of the prompt
TotalChars(msgs) == msgs.pinned + SumChars(msgs.history) + msgs.intervention

RECURSIVE InterventionContext(_, _, _)
\* loop.py:822-836: the prompt is rebuilt with the intervention appended, on a
\* history tail one message shorter, until it fits or the tail is empty
InterventionContext(history_tail, notes, lists) ==
  LET msgs == [build_context(history_tail, notes, CONTEXT_MAX_CHARS, lists)
                 EXCEPT !.intervention = InterventionChars]
  IN IF TotalChars(msgs) <= CONTEXT_MAX_CHARS \/ history_tail = <<>>
     THEN msgs
     ELSE InterventionContext(Tail(history_tail), notes, lists)

\* the control variables the prompt assembly leaves alone
prompt_frame == <<pc, step, llm_calls, result, epistemic, resp, tool_calls, notes_size,
                  contract_status, decision, dispatched, trace_new, evidence_new,
                  move_new, query_new, query_calls, notes_new,
                  length_nudges, parse_error_hits, verifier_rounds, pending_gradient,
                  gradient_reminders, finalization_hits, stagnation_streak,
                  force_tool_next, move_repeat_streak, last_move_sig, feedback,
                  sandbox_stops>>

\* loop.py:802-803: the step is a multiple of NOTES_UPDATE_INTERVAL
NotesUpdateDue ==
  /\ ~context_messages.built
  /\ ~notes_required
  /\ notes_required' = TRUE
  /\ UNCHANGED <<prompt_frame, run_vars, evidence_vars, search_vars, stream_vars,
                 context_vars, extract_vars>>

\* loop.py:804-816 and 837: the prompt of a turn without intervention
SendPrompt ==
  /\ ~context_messages.built
  /\ ~notes_required
  /\ context_messages' = build_context(HistoryTail(history_chars), notes_chars,
                                       CONTEXT_MAX_CHARS, lists_chars)
  /\ UNCHANGED <<notes_chars, lists_chars, history_chars>>
  /\ UNCHANGED <<loop_vars, run_vars, evidence_vars, search_vars, stream_vars,
                 extract_vars>>

\* loop.py:817-837: the prompt of a turn with the notes-update intervention
SendInterventionPrompt ==
  /\ ~context_messages.built
  /\ notes_required
  /\ context_messages' = InterventionContext(HistoryTail(history_chars), notes_chars,
                                             lists_chars)
  /\ UNCHANGED <<notes_chars, lists_chars, history_chars>>
  /\ UNCHANGED <<loop_vars, run_vars, evidence_vars, search_vars, stream_vars,
                 extract_vars>>

ContextNext ==
  \/ NotesUpdateDue
  \/ SendPrompt
  \/ SendInterventionPrompt

\* the histories of at most MaxHistory messages
Histories ==
  UNION {[1..n -> 1..MaxMessageChars] : n \in 0..MaxHistory}

\* a turn of the loop with any notes.md, lists and history within the bounds
ContextInit ==
  /\ ControlInit({"judge"})
  /\ notes_chars \in 0..MaxNotesChars
  /\ lists_chars \in 0..MaxListsChars
  /\ history_chars \in Histories
  /\ context_messages = NoContextMessages
  /\ NoText

ContextSpec == ContextInit /\ [][ContextNext]_vars

----------------------------------------------------------------------------
(* Multi-call extraction (loop.py:75-88), taken on its own: a response     *)
(* text with up to MaxObjects well-formed tool-call objects of either      *)
(* shape, in either layout.                                                *)

\* the most tool-call objects of a response text
MaxObjects == 3

WrittenObjects == [shape : Shapes, call : {ShellCall("ls"), ShellCall("append")}]

\* loop.py:876: tool_calls = _extract_tool_calls(resp)
ExtractFromText ==
  /\ ~extracted.done
  /\ extracted' = [done |-> TRUE,
                   calls |-> _extract_tool_calls(written_objects, written_layout)]
  /\ UNCHANGED <<written_objects, written_layout>>
  /\ UNCHANGED <<loop_vars, run_vars, evidence_vars, search_vars, stream_vars,
                 context_vars>>

ExtractNext == ExtractFromText

\* a response text with k >= 1 well-formed tool-call objects
ExtractInit ==
  /\ ControlInit({"judge"})
  /\ NoContext
  /\ written_objects \in UNION {[1..k -> WrittenObjects] : k \in 1..MaxObjects}
  /\ written_layout \in Layouts
  /\ extracted = NotExtracted

ExtractSpec == ExtractInit /\ [][ExtractNext]_vars

----------------------------------------------------------------------------
(* Properties *)

Verified == [status |-> "VERIFIED", unresolved |-> {}, constraints |-> {}, blocked |-> {}]

\* C1: whenever deep_verify has returned a final score >= 3, the next step of
\* the loop sets the status to VERIFIED, empties the three lists and returns
\* the answer in that same turn (no step is counted, the model is not called
\* again), and nothing happens after the return.
C1_AcceptReturns ==
  [][/\ (pc = "decided" /\ decision.score >= ACCEPT_SCORE) =>
          /\ epistemic' = Verified
          /\ pc' = "done"
          /\ result' = "accepted"
          /\ step' = step
          /\ llm_calls' = llm_calls
     /\ (pc = "done") => UNCHANGED vars]_vars

\* an accepted run that had gathered blocked entries before the verifier ran
C1_Witness ==
  /\ pc = "done"
  /\ result = "accepted"
  /\ decision.made
  /\ decision.score >= ACCEPT_SCORE
  /\ epistemic = Verified
  /\ last_failure_type # "none"

\* C2: a decision that carries a SCOUT cap reason has a final score <= 2,
\* whatever the judge scored, and run_agent does not return an answer as
\* accepted on such a decision.
C2_CappedNeverAccepted ==
  (decision.made /\ decision.cap_reasons # {}) =>
    (decision.score <= CAP_SCORE /\ result # "accepted")

\* a decision with a cap reason whose judge had scored 3 or more
C2_Witness ==
  /\ decision.made
  /\ decision.cap_reasons # {}
  /\ decision.score_before_cap >= ACCEPT_SCORE

\* C3: the verifier is not invoked while tool_calls_made < 3: a response
\* without a tool call (loop.py:949) is then answered with a nudge and the
\* loop continues; from tool_calls_made >= 3 on, such a response that is not
\* length-truncated (and not answered by a gradient reminder, which needs an
\* earlier verifier round) invokes the verifier, which counts a round.
C3_PreToolGate ==
  [][/\ (verifier_rounds' # verifier_rounds \/ pc' = "verify") =>
          tool_calls_made >= MIN_TOOL_CALLS
     /\ (pc = "answered" /\ resp.kind = "text" /\ tool_calls_made < MIN_TOOL_CALLS) =>
          (pc' = "turn" /\ result' = result /\ verifier_rounds' = verifier_rounds)
     /\ (/\ pc = "answered" /\ resp.kind = "text"
         /\ tool_calls_made >= MIN_TOOL_CALLS
         /\ ~resp.length /\ ~GradientReminded) => pc' = "verify"
     /\ (pc = "verify") => (verifier_rounds' = verifier_rounds + 1 /\ decision'.made)
    ]_vars

\* the verifier is invoked with exactly three tool calls made
C3_Witness == pc = "verify" /\ tool_calls_made = MIN_TOOL_CALLS /\ verifier_rounds = 0

\* C4: with max_steps > 0 every turn counts exactly one step and calls the
\* agent model exactly once, the model is called at most max_steps times, and
\* run_agent returns a result.
C4_StepBudget ==
  /\ [](llm_calls <= max_steps)
  /\ [](pc # "done" => step = llm_calls)
  /\ [][llm_calls' # llm_calls =>
          (pc = "turn" /\ llm_calls' = llm_calls + 1 /\ step' = step + 1)]_vars
  /\ <>(pc = "done" /\ result # "none")

\* the run that uses its whole budget
C4_Witness ==
  /\ pc = "done"
  /\ result = "unresolved_step_budget"
  /\ llm_calls = max_steps
  /\ verifier_rounds > 0
  /\ tool_calls_made > 0

\* C5: every agent shell command that holds an operation that overwrites,
\* truncates, moves, removes or copies over notes.md is blocked with
\* notes_overwrite_blocked and not handed to the sandbox.
C5_DestructiveBlocked ==
  [][(/\ pc = "calls"
      /\ Head(tool_calls).tool = "shell"
      /\ Destroys[Head(tool_calls).cmd]) =>
       (/\ ~dispatched'
        /\ evidence_new'[1].error_type = "notes_overwrite_blocked")]_vars

\* C6: after the initial reset the size of notes.md never decreases.
C6_NotesNeverShrink == [][pc # "start" => notes_size' >= notes_size]_vars

BlockTypes == {"notes_overwrite_blocked", "notes_update_required",
               "query_mutation_required", "domain_shift_required"}

AgentEvents(trace) == SelectSeq(trace, LAMBDA e : e.scope = "agent")

\* C8 as stated: for every tool event written to trace.jsonl, whatever its
\* scope, exactly one evidence entry with the same step is written.
C8_EveryToolEvent ==
  \A i \in 1..Len(trace_new) :
    /\ trace_new[i].has_step
    /\ Cardinality({k \in 1..Len(evidence_new) :
                      evidence_new[k].step = trace_new[i].step}) = 1

\* C8 as amended: for every tool event the control loop writes for a tool
\* call of the agent, the loop writes exactly one evidence entry, with the
\* same step and an id above every earlier id; the tool events of the
\* runtime's own commands and of the verifier have no evidence entry.
C8_AgentToolEvents ==
  [][IF pc = "calls"
     THEN /\ Len(AgentEvents(trace_new')) = 1
          /\ Len(evidence_new') = 1
          /\ evidence_new'[1].step = AgentEvents(trace_new')[1].step
          /\ evidence_new'[1].id > evidence_counter
          /\ evidence_counter' = evidence_new'[1].id
     ELSE /\ AgentEvents(trace_new') = <<>>
          /\ evidence_new' = <<>>
          /\ evidence_counter' = evidence_counter]_vars

\* the second call of a batched response: two events and two entries of step 1
C8_Witness ==
  /\ step = 1
  /\ evidence_new # <<>>
  /\ evidence_new[1].id = 2
  /\ evidence_new[1].step = 1
  /\ trace_new = <<ToolEvent("agent", 1), RuntimeEvent>>

\* the response cites no evidence, or an id that is not in evidence_ids
BadCitation(r) == r.cited = {} \/ r.cited \ evidence_ids # {}

CitationConstraint(r) ==
  IF r.cited = {} THEN "Missing EVIDENCE_USED" ELSE "Unknown EVIDENCE_USED ids"

C11_NoReturnToInProgress ==
  /\ [](pc = "start" => epistemic.status = "IN_PROGRESS")
  /\ [][epistemic.status # "IN_PROGRESS" => epistemic'.status # "IN_PROGRESS"]_vars

\* a call that succeeded, so that new evidence without a failure was recorded,
\* while the status stays BLOCKED from an earlier failure
C11_Witness ==
  /\ evidence_new # <<>>
  /\ evidence_new[1].failure_type = ""
  /\ dispatched
  /\ epistemic.status = "BLOCKED"

\* C12: after an agent tool call that no policy blocked and whose observation
\* carries an error or a non-zero exit code, the status is BLOCKED once the
\* evidence of the call is recorded, and the blocked list holds the failure.
C12_FailureBlocks ==
  [][(/\ pc = "calls"
      /\ evidence_new'[1].error_type \notin BlockTypes
      /\ (evidence_new'[1].error \/ evidence_new'[1].exit_code = "nonzero")) =>
       (/\ epistemic'.status = "BLOCKED"
        /\ evidence_new'[1].failure_type # ""
        /\ evidence_new'[1].failure_type \in epistemic'.blocked)]_vars

\* a dispatched command that returned a non-zero exit code while the status
\* was UNRESOLVED or BLOCKED before
C12_Witness ==
  /\ evidence_new # <<>>
  /\ dispatched
  /\ evidence_new[1].exit_code = "nonzero"
  /\ evidence_new[1].failure_type = "tool_error"
  /\ epistemic.status = "BLOCKED"
  /\ epistemic.constraints # {}

\* C13 as stated: the verification-budget-exhausted result is not produced in
\* a turn that itself invoked deep_verify.
C13_BudgetWithoutVerification ==
  (result = "verification_budget") => ~decision.made

\* C13 as amended: deep_verify is invoked at most max_verifier_rounds times
\* and no turn starts with verifier_rounds = max_verifier_rounds; the
\* verification-budget-exhausted result is produced in the turn that ran
\* round number max_verifier_rounds, exactly when the final score of that
\* round is below 3, and that turn leaves the status UNRESOLVED with the
\* entry verification_budget_exhausted.
C13_BudgetInLastRound ==
  /\ [](verifier_rounds <= max_verifier_rounds)
  /\ [](pc \in {"turn", "answered", "calls", "verify"} =>
          verifier_rounds < max_verifier_rounds)
  /\ [][(result' = "verification_budget" /\ result # "verification_budget") =>
          (/\ pc = "decided" /\ decision.made
           /\ decision.score < ACCEPT_SCORE
           /\ verifier_rounds = max_verifier_rounds
           /\ verifier_rounds' = verifier_rounds
           /\ step' = step
           /\ epistemic'.status = "UNRESOLVED"
           /\ "verification_budget_exhausted" \in epistemic'.unresolved)]_vars
  /\ [][(/\ pc = "decided" /\ decision.score < ACCEPT_SCORE
         /\ verifier_rounds = max_verifier_rounds) =>
          (result' = "verification_budget" /\ pc' = "done")]_vars

\* the run that ends on its last verification round
C13_Witness ==
  /\ pc = "done"
  /\ result = "verification_budget"
  /\ verifier_rounds = max_verifier_rounds
  /\ decision.made
  /\ epistemic.status = "UNRESOLVED"

\* C14: the turn whose step number is a multiple of NOTES_UPDATE_INTERVAL sets
\* notes_required; the flag is cleared only by an agent shell call that is
\* classified as append and that no policy blocks (it reaches tb.shell);
\* while the flag is set, every agent shell call not classified as append is
\* blocked by the notes guard or the notes gate and not handed to the sandbox.
C14_NotesGate ==
  [][/\ (pc = "turn" /\ pc' = "answered" /\ step' % NOTES_UPDATE_INTERVAL = 0) =>
          notes_required'
     /\ (notes_required /\ ~notes_required') =>
          (/\ pc = "calls"
           /\ Head(tool_calls).tool = "shell"
           /\ NotesMode[Head(tool_calls).cmd] = "append"
           /\ evidence_new'[1].error_type \notin BlockTypes
           /\ dispatched')
     /\ (/\ pc = "calls" /\ notes_required
         /\ Head(tool_calls).tool = "shell"
         /\ NotesMode[Head(tool_calls).cmd] # "append") =>
          (/\ ~dispatched'
           /\ evidence_new'[1].error_type \in NotesErrorTypes
           /\ notes_required')]_vars

\* the gate still blocks in the turn after the one that armed it
C14_Witness ==
  /\ notes_required
  /\ step > NOTES_UPDATE_INTERVAL
  /\ evidence_new # <<>>
  /\ evidence_new[1].error_type = "notes_update_required"
  /\ ~dispatched

\* C15: every call that a policy blocks, whichever of the four error types
\* its observation has, appends one evidence record and one move record with
\* outcome blocked, and one query record with outcome blocked when its
\* command has a query; the command is not handed to the sandbox.
C15_BlockedCallsRecorded ==
  [][(pc = "calls" /\ evidence_new'[1].error_type \in BlockTypes) =>
       (/\ Len(evidence_new') = 1
        /\ Len(move_new') = 1
        /\ move_new'[1].outcome = "blocked"
        /\ (PrimaryUrl[Head(tool_calls).cmd].query_family # "none") =>
             (Len(query_new') = 1 /\ query_new'[1].outcome = "blocked")
        /\ ~dispatched')]_vars

\* C16 as stated: an agent call classified as an overwrite of notes.md gets
\* the observation notes_overwrite_blocked and an evidence record with that
\* error type; notes.md is unchanged by the handling of the call and no
\* command is sent to the sandbox while it is handled.
C16_OverwriteLeavesNotes ==
  [][(/\ pc = "calls"
      /\ Head(tool_calls).tool = "shell"
      /\ NotesMode[Head(tool_calls).cmd] = "overwrite") =>
       (/\ evidence_new'[1].error_type = "notes_overwrite_blocked"
        /\ notes_size' = notes_size
        /\ ~dispatched'
        /\ \A i \in 1..Len(trace_new') : trace_new'[i].scope # "runtime")]_vars

\* C16 as amended: an agent call classified as an overwrite of notes.md gets
\* the observation notes_overwrite_blocked and one evidence record with that
\* error type; the command of the agent is not sent to the sandbox; the one
\* command sent to the sandbox is the runtime's notes_append, which adds the
\* step section of the call to notes.md; the search state, the ledgers and
\* notes_required are left as they were.
C16_OverwriteBlockFrame ==
  [][(/\ pc = "calls"
      /\ Head(tool_calls).tool = "shell"
      /\ NotesMode[Head(tool_calls).cmd] = "overwrite") =>
       (/\ Len(evidence_new') = 1
        /\ evidence_new'[1].error_type = "notes_overwrite_blocked"
        /\ ~dispatched'
        /\ trace_new' = <<ToolEvent("agent", step), RuntimeEvent>>
        /\ notes_size' = notes_size + 1
        /\ notes_new' = <<StepSection(evidence_new'[1].id)>>
        /\ move_new' = <<>>
        /\ query_new' = <<>>
        /\ UNCHANGED search_vars
        /\ UNCHANGED <<notes_required, move_repeat_streak, last_move_sig,
                       finalization_hits, step, llm_calls, verifier_rounds>>)]_vars

\* an overwrite that was blocked while notes.md held more than the reset text
C16_Witness ==
  /\ evidence_new # <<>>
  /\ evidence_new[1].error_type = "notes_overwrite_blocked"
  /\ ~dispatched
  /\ notes_size > 2
  /\ ~notes_required

\* the first call executes, the second is blocked with query_mutation_required,
\* the third passes; each writes one query record, only the middle one blocked
AABPattern(a, b, c) ==
  /\ a.error_type \notin BlockTypes
  /\ b.error_type = "query_mutation_required"
  /\ c.error_type \notin BlockTypes
  /\ Len(a.records) = 1 /\ a.records[1].outcome # "blocked"
  /\ Len(b.records) = 1 /\ b.records[1].outcome = "blocked"
  /\ Len(c.records) = 1 /\ c.records[1].outcome # "blocked"

\* three successive calls with query families A, A, B, the first of which
\* met an empty window of recent families
AABCalls(a, b, c) ==
  /\ a.window = 0
  /\ a.query_family = b.query_family
  /\ c.query_family # a.query_family

\* the policies that are tried before or after the query mutation policy
OtherBlockTypes == BlockTypes \ {"query_mutation_required"}

\* C17 as stated: at any point of a run, of three successive agent shell
\* calls with query families A, A, B that start from an empty window, the
\* first executes, the second is blocked with query_mutation_required, the
\* third passes, and query_ledger.jsonl gains three entries of which only the
\* middle one has the outcome blocked.
C17_AABAnywhere ==
  \A i \in 1..(Len(query_calls) - 2) :
    AABCalls(query_calls[i], query_calls[i + 1], query_calls[i + 2]) =>
      AABPattern(query_calls[i], query_calls[i + 1], query_calls[i + 2])

\* C17 as amended: the same, for three calls none of which is blocked by the
\* notes guard, the notes gate or the domain shift policy (a call that the
\* notes guard or gate blocks writes no query record at all).
C17_AABUnlessOtherPolicy ==
  \A i \in 1..(Len(query_calls) - 2) :
    (/\ AABCalls(query_calls[i], query_calls[i + 1], query_calls[i + 2])
     /\ \A k \in i..(i + 2) : query_calls[k].error_type \notin OtherBlockTypes) =>
      AABPattern(query_calls[i], query_calls[i + 1], query_calls[i + 2])

\* the three calls A, A, B, made after a call without a query
C17_Witness ==
  /\ Len(query_calls) = 3
  /\ AABCalls(query_calls[1], query_calls[2], query_calls[3])
  /\ AABPattern(query_calls[1], query_calls[2], query_calls[3])
  /\ query_new # <<>>
  /\ tool_calls_made > 3

\* C18 as stated: on a negative-claim task whose domain minima are not met,
\* after two successive accepted calls to one domain (domain_same_streak is 1
\* after the second) the third successive call to that domain is blocked with
\* domain_shift_required; read here for a third call that no earlier policy
\* (notes guard, notes gate, query mutation) blocks.
C18_ThirdCallBlocked ==
  [][(/\ pc = "calls" /\ tool_calls # <<>>
      /\ negative_claim_task
      /\ ~NegativeClaimMinimaMet(official_domains_checked, independent_domains_checked)
      /\ domain_same_streak = DOMAIN_SHIFT_LIMIT - 1
      /\ Head(tool_calls).tool = "shell"
      /\ PrimaryUrl[Head(tool_calls).cmd].domain = last_domain
      /\ evidence_new' # <<>>
      /\ evidence_new'[1].error_type \notin
           {"notes_overwrite_blocked", "notes_update_required",
            "query_mutation_required"})
     => evidence_new'[1].error_type = "domain_shift_required"]_vars

\* C19: negative_claim_evidence_exhausted is recorded only on a no-tool turn
\* at a step >= max(1, floor(0.6 * max_steps)) and only when at least
\* NEGATIVE_CLAIM_MIN_OFFICIAL official and NEGATIVE_CLAIM_MIN_INDEPENDENT
\* independent domains have been checked; the two sets grow only by the domain
\* of an executed call, never by a blocked call.
C19_NegativeClaimExhausted ==
  [][/\ ("negative_claim_evidence_exhausted" \in epistemic'.unresolved
          /\ "negative_claim_evidence_exhausted" \notin epistemic.unresolved)
        => /\ pc = "answered" /\ resp.kind = "text"
           /\ step >= 1
           /\ step >= (max_steps * 6) \div 10
           /\ Cardinality(official_domains_checked) >= NEGATIVE_CLAIM_MIN_OFFICIAL
           /\ Cardinality(independent_domains_checked) >= NEGATIVE_CLAIM_MIN_INDEPENDENT
           /\ UNCHANGED <<official_domains_checked, independent_domains_checked>>
     /\ (official_domains_checked' # official_domains_checked
          \/ independent_domains_checked' # independent_domains_checked)
        => /\ pc = "calls" /\ tool_calls # <<>>
           /\ Head(tool_calls).tool = "shell"
           /\ evidence_new' # <<>>
           /\ evidence_new'[1].error_type \notin BlockTypes
           /\ (official_domains_checked' \cup independent_domains_checked')
                \ (official_domains_checked \cup independent_domains_checked)
                = {PrimaryUrl[Head(tool_calls).cmd].domain}]_vars

\* the conclusion is recorded at the threshold step of a seven-step budget,
\* after official and independent domains were checked in the first steps
C19_Witness ==
  /\ "negative_claim_evidence_exhausted" \in epistemic.unresolved
  /\ negative_claim_task
  /\ max_steps = MaxSteps + 3
  /\ step = ((MaxSteps + 3) * 6) \div 10
  /\ notes_new = <<ModelOutputSection>>

\* a no-tool turn that is not answered with a gradient reminder counts a
\* stagnant turn when it ends UNRESOLVED with no new evidence, and the flag is
\* raised, with a stagnation constraint, exactly when the streak reaches
\* STAGNATION_LIMIT
StagnationRaises ==
  /\ (pc = "answered" /\ resp.kind = "text" /\ ~GradientReminded)
       => stagnation_streak' =
            IF epistemic'.status = "UNRESOLVED" /\ evidence_counter = last_evidence_count
            THEN stagnation_streak + 1 ELSE 0
  /\ (~force_tool_next /\ force_tool_next')
       <=> (stagnation_streak' = STAGNATION_LIMIT
            /\ stagnation_streak = STAGNATION_LIMIT - 1)
  /\ (~force_tool_next /\ force_tool_next')
       => /\ pc = "answered" /\ resp.kind = "text"
          /\ "Stagnation" \in epistemic'.constraints

\* a step that handles a tool call of the agent
CallHandled == pc = "calls" /\ tool_calls # <<>> /\ tool_calls' = Tail(tool_calls)

\* C20 as stated: force_tool_next is raised exactly on the no-tool turn at
\* which stagnation_streak reaches STAGNATION_LIMIT, a stagnation constraint is
\* recorded then, and the flag stays raised until a tool call is accepted by
\* policy, which clears it and resets the streak to 0.
C20_ClearedByAcceptedCall ==
  [][/\ StagnationRaises
     /\ (force_tool_next /\ ~force_tool_next')
          => (CallHandled /\ evidence_new'[1].error_type \notin BlockTypes)
     /\ (CallHandled /\ evidence_new'[1].error_type \notin BlockTypes)
          => (~force_tool_next' /\ stagnation_streak' = 0)]_vars

\* C20 as amended: the same, with the flag staying raised until the next tool
\* call of the agent is handled, accepted or blocked by policy; every handled
\* call clears the flag and resets the streak to 0.
C20_ClearedByAnyCall ==
  [][/\ StagnationRaises
     /\ (force_tool_next /\ ~force_tool_next') => CallHandled
     /\ CallHandled => (~force_tool_next' /\ stagnation_streak' = 0)]_vars

\* the flag was raised at the third stagnant turn (the constraint is there)
\* and the first tool call of the run, blocked by the notes gate, cleared it
C20_Witness ==
  /\ "Stagnation" \in epistemic.constraints
  /\ ~force_tool_next
  /\ stagnation_streak = 0
  /\ tool_calls_made = 1
  /\ evidence_new # <<>>
  /\ evidence_new[1].error_type \in BlockTypes

\* the string of the finalization stop
FinalizationStopText ==
  Returned(FALSE,
           "Final deliverables appear to be written under /work. Stopping to prevent a tool loop.",
           {}, "", {})

\* the agent issues, in a response with finalization intent, a shell command
\* that writes a final-like file under /work
FinalWriteIssued ==
  /\ CallHandled
  /\ Head(tool_calls).tool = "shell"
  /\ resp.fin
  /\ WritesFinal[Head(tool_calls).cmd]

\* the write is counted, and the third counted write returns the stop text
FinalWriteCounted ==
  /\ finalization_hits' = finalization_hits + 1
  /\ (finalization_hits' >= FINALIZATION_LIMIT
       => pc' = "done" /\ ReturnValue(result', epistemic') = FinalizationStopText)
  /\ (finalization_hits' < FINALIZATION_LIMIT => result' = result)

\* C21 as stated: every shell command that writes a final-like file under
\* /work, issued in a response showing finalization intent, is counted, in
\* whatever turn it occurs, and the loop returns the stop text on the third.
C21_ThirdWriteStops ==
  [][FinalWriteIssued => FinalWriteCounted]_vars

\* C21 as amended: such a command is counted when no policy blocks it, and
\* the loop returns the stop text on the third counted one; a blocked one and
\* every other step leave the count as it is and do not return the stop text.
C21_ThirdExecutedWriteStops ==
  [][/\ (FinalWriteIssued /\ evidence_new'[1].error_type \notin BlockTypes)
          => FinalWriteCounted
     /\ ~(FinalWriteIssued /\ evidence_new'[1].error_type \notin BlockTypes)
          => /\ finalization_hits' = finalization_hits
             /\ (result' = "finalization_stop" => result = "finalization_stop")]_vars

\* the third write, made in the second turn, ended the run with the stop text
C21_Witness ==
  /\ pc = "done"
  /\ ReturnValue(result, epistemic) = FinalizationStopText
  /\ finalization_hits = FINALIZATION_LIMIT
  /\ step = 2

\* C22 as stated: every return other than a verifier-accepted answer (step
\* budget, verifier rounds, parse-error threshold, finalization stop) is a
\* string beginning with UNRESOLVED: that lists the final status, constraints,
\* blocked and unresolved lists and points to /work/notes.md and
\* /work/evidence.jsonl.
C22_UnresolvedReport ==
  (pc = "done" /\ result # "accepted") =>
    /\ ReturnValue(result, epistemic).prefix = "UNRESOLVED:"
    /\ ReturnValue(result, epistemic).lists = {epistemic}
    /\ {"/work/notes.md", "/work/evidence.jsonl"}
         \subseteq ReturnValue(result, epistemic).pointers

\* C23 as stated: on success the returned value is exactly the answer text
\* that was passed to deep_verify in the accepting round.
C23_ReturnsVerifiedAnswer ==
  (pc = "done" /\ result = "accepted") =>
    /\ ReturnValue(result, epistemic).body = AnswerText(resp)
    /\ ReturnValue(result, epistemic).message = ""

\* C24: the calls of a batched response are processed in source order, one
\* at a time: the calls still to process are a suffix of the response's
\* calls, a step handles the first of them and appends that call's evidence
\* record (with the next evidence id) and its move and query records, if it
\* has any, before the next call is looked at; so no record of call k+1
\* precedes a record of call k in a ledger.
C24_CallsInSourceOrder ==
  [][/\ (pc = "answered" /\ pc' = "calls") => tool_calls' = resp.calls
     /\ CallHandled =>
          /\ tool_calls = SubSeq(resp.calls, Len(resp.calls) - Len(tool_calls) + 1,
                                 Len(resp.calls))
          /\ tool_calls' = Tail(tool_calls)
          /\ Len(evidence_new') = 1
          /\ evidence_new'[1].id = evidence_counter + 1
          /\ evidence_new'[1].step = step
          /\ evidence_counter' = evidence_counter + 1
          /\ Len(move_new') <= 1 /\ Len(query_new') <= 1
          /\ \A i \in 1..Len(move_new') : move_new'[i].step = step
          /\ \A i \in 1..Len(query_new') :
               /\ query_new'[i].step = step
               /\ Head(tool_calls).tool = "shell"
               /\ query_new'[i].query_family =
                    PrimaryUrl[Head(tool_calls).cmd].query_family
     /\ ~CallHandled =>
          (evidence_counter' = evidence_counter
           /\ move_new' \in {<<>>, move_new} /\ query_new' \in {<<>>, query_new})]_vars

\* the first call of a response with two different calls has written its
\* evidence, move and query records; the second call is still to process
C24_Witness ==
  /\ pc = "calls"
  /\ Len(resp.calls) = 2 /\ resp.calls[1] # resp.calls[2]
  /\ tool_calls = <<resp.calls[2]>>
  /\ evidence_new # <<>> /\ move_new # <<>> /\ query_new # <<>>
  /\ PrimaryUrl[resp.calls[2].cmd].query_family # query_new[1].query_family

\* C25 as stated: no two running producers ever have the same artifact file
\* open for append, and each of trace.jsonl, container.log and
\* container_events.log is written by one thread only, in every interleaving
\* including the error paths of the streamers.
C25_OneWriterPerFile ==
  /\ \A t1, t2 \in Threads :
       (t1 # t2 /\ appending[t1] # "none") => appending[t1] # appending[t2]
  /\ \A f \in ArtifactFiles : Cardinality(file_writers[f]) <= 1

\* C26 as stated: no failure of a shell execution that occurs while a turn
\* processes a tool call (an exception of the backend exec, a deny-pattern
\* or cwd rejection) leaves the control loop; the loop goes on with the next
\* call or turn.
C26_NoShellFailurePropagates == pc # "raised"

----------------------------------------------------------------------------
\* C27: every prompt the loop sends to the LLM has a total content character
\* count of at most CONTEXT_MAX_CHARS, whatever the size of notes.md, of the
\* epistemic lists and of the history, the turn of the notes-update
\* intervention included.
C27_PromptWithinLimit ==
  context_messages.built => TotalChars(context_messages) <= CONTEXT_MAX_CHARS

----------------------------------------------------------------------------
\* a turn whose response has no tool call and a hard parse error
HardParseErrorTurn == pc = "answered" /\ resp.kind = "parse_error"

\* C28: the loop aborts with the format-error report exactly when
\* parse_error_hits reaches 5, and the counter counts the hard parse-error
\* turns since the last turn with a tool call: every hard parse-error turn adds
\* one, a turn with a tool call resets it to 0, and a no-tool turn without a
\* parse error leaves it as it is.
C28_ParseErrorAbort ==
  [][/\ HardParseErrorTurn => parse_error_hits' = parse_error_hits + 1
     /\ (pc = "answered" /\ resp.kind = "tools") => parse_error_hits' = 0
     /\ (pc = "answered" /\ resp.kind = "text") => parse_error_hits' = parse_error_hits
     /\ (result = "none" /\ result' = "format_errors")
          <=> (HardParseErrorTurn /\ parse_error_hits' = PARSE_ERROR_LIMIT)]_vars

----------------------------------------------------------------------------
\* loop.py:884-904 and 1041-1061: the step answers a truncated response with
\* the length-nudge message: a parse-error turn with finish_reason "length",
\* or a tool-less answer past the gate while length_nudges is at most the limit
LengthNudgeIssued ==
  \/ HardParseErrorTurn /\ resp.length
  \/ /\ pc = "answered" /\ resp.kind = "text"
     /\ ~GradientReminded
     /\ ~PreToolGate(tool_calls_made)
     /\ resp.length
     /\ length_nudges' <= LENGTH_NUDGE_LIMIT

\* C29: at most 4 length nudges are issued in a task: once 4 have been issued,
\* no response with finish_reason "length" is answered with a length-nudge
\* message, whether it parses or not.
C29_AtMostFourLengthNudges ==
  [][LengthNudgeIssued => length_nudges < LENGTH_NUDGE_LIMIT]_vars

----------------------------------------------------------------------------
\* C30: whenever executed calls of the same source_class fail
\* FAILURE_ESCALATION_LIMIT times in a row, force_source_shift is raised at the
\* last of those failures, whatever came before the run of failures; the next
\* executed call of another source_class clears it.
C30_SourceShiftRaised ==
  [][/\ (class_failure_run' >= FAILURE_ESCALATION_LIMIT) => force_source_shift'
     /\ (last_source_class' # last_source_class) => ~force_source_shift']_vars

----------------------------------------------------------------------------
\* a step that handles a tool call no policy blocked
CallExecuted == CallHandled /\ evidence_new'[1].error_type \notin BlockTypes

\* C31: force_move_change is raised when the same move_sig has repeated
\* MOVE_REPEAT_LIMIT times in consecutive executed calls while the status is
\* UNRESOLVED, and only then; the next executed call whose move_sig differs
\* from the one before it clears the flag.
C31_MoveChangeRaised ==
  [][/\ (/\ CallExecuted
         /\ move_repeat_streak' >= MOVE_REPEAT_LIMIT
         /\ epistemic'.status = "UNRESOLVED") => force_move_change'
     /\ (~force_move_change /\ force_move_change')
          => /\ CallExecuted
             /\ move_repeat_streak' >= MOVE_REPEAT_LIMIT
             /\ last_move_sig' = last_move_sig
             /\ epistemic'.status = "UNRESOLVED"
     /\ (CallExecuted /\ last_move_sig' # last_move_sig) => ~force_move_change'
     /\ (CallExecuted /\ move_repeat_streak' > 0)
          => move_repeat_streak' = move_repeat_streak + 1]_vars

\* the flag is up after the fourth executed call with one move_sig
C31_Witness ==
  /\ force_move_change
  /\ move_repeat_streak = MOVE_REPEAT_LIMIT
  /\ epistemic.status = "UNRESOLVED"
  /\ "Move stagnation" \in epistemic.constraints

----------------------------------------------------------------------------
\* verifier.py:858-869: the canned instruction of a cap reason
CannedFor(reason) ==
  CASE reason = "insufficient_independent_citations" -> "add_independent_citations"
    [] reason = "missing_coverage_proof" -> "state_scope_and_coverage"
    [] reason = "unknown_checks_present" -> "resolve_unknown_checks"

\* C32 as stated: for every verifier decision and every cap reason it carries,
\* the final instruction list contains the canned instruction of that cap
\* reason, and the list never has more than 3 entries, whatever instructions
\* the judge produced.
C32_CannedInstructionPresent ==
  decision.made =>
    /\ \A r \in decision.cap_reasons : CannedFor(r) \in SeqRange(decision.instructions)
    /\ Len(decision.instructions) <= MAX_INSTRUCTIONS

\* the instructions of the judge in a list
IsJudgeInstruction(i) == i = "judge_instruction"

\* verifier.py:858-869: the order in which the cap reasons are looked at
CapOrder == <<"insufficient_independent_citations", "missing_coverage_proof",
              "unknown_checks_present">>

InDecisionCaps(r) == r \in decision.cap_reasons

\* the canned instructions of the cap reasons of the decision, in that order
DecisionCanned ==
  LET sel == SelectSeq(CapOrder, InDecisionCaps)
  IN [i \in 1..Len(sel) |-> CannedFor(sel[i])]

\* C32 amended: the final instruction list of a capped decision is the first 3
\* entries of the judge's instructions followed by the canned instructions of
\* its cap reasons (citations, coverage, unknown checks, in that order): a
\* canned instruction is in the list unless 3 entries come before it, and the
\* list never has more than 3 entries.
C32_CannedInstructionWhileRoom ==
  decision.made =>
    /\ decision.cap_reasons # {} =>
          decision.instructions =
            Prefix(SelectSeq(decision.instructions, IsJudgeInstruction)
                     \o DecisionCanned,
                   MAX_INSTRUCTIONS)
    /\ Len(decision.instructions) <= MAX_INSTRUCTIONS

\* a decision with two cap reasons, two instructions of the judge and room
\* for the canned instruction of the first cap reason only
C32_Witness ==
  /\ decision.made
  /\ decision.cap_reasons = {"insufficient_independent_citations",
                             "unknown_checks_present"}
  /\ decision.instructions = <<"judge_instruction", "judge_instruction",
                               "add_independent_citations">>

----------------------------------------------------------------------------
\* C33: every VerifierDecision deep_verify returns has a score in 1..4,
\* whatever text or JSON the judge model outputs, so that the accept test of
\* the loop only sees the values 1 to 4.
C33_ScoreInRange ==
  decision.made => decision.score \in 1..4

----------------------------------------------------------------------------
\* C34: for every move record written during a run, the domain, query_family
\* and source_class classifiers, run again on the url of the record at any
\* later point of the run, give the recorded domain, query_family and
\* source_class, also in negative-claim tasks, where official-domain hints are
\* learned during the run.
C34_ClassifiersReproduce ==
  \A i \in 1..Len(move_new) :
    LET rec == move_new[i]
        again == UrlParts(rec.url)
    IN /\ rec.domain = again.domain
       /\ rec.query_family = again.query_family
       /\ rec.source_class = _classify_source(again.domain, official_domain_hints)

----------------------------------------------------------------------------
\* C35: for a response that holds k >= 1 well-formed tool-call JSON objects of
\* any recognised shape, the canonical nested shape {tool, args: {cmd}}
\* included, multi-call extraction yields exactly those k calls in source
\* order (and the turn processes all of them).
C35_ExtractsEveryCall ==
  extracted.done =>
    extracted.calls = [i \in 1..Len(written_objects) |-> written_objects[i].call]

----------------------------------------------------------------------------
\* C36: the epistemic status becomes VERIFIED only in a turn in which
\* deep_verify returned a final score >= 3: no sequence of model responses
\* brings the status to VERIFIED without an accepting verifier round.
C36_VerifiedOnlyByVerifier ==
  [][(epistemic.status # "VERIFIED" /\ epistemic'.status = "VERIFIED")
       => (pc = "decided" /\ decision.made /\ decision.score >= ACCEPT_SCORE)]_vars

----------------------------------------------------------------------------
\* loop.py:957-978: the response lacks STATUS_UPDATE, lacks EVIDENCE_USED or
\* cites an evidence id that is not in evidence_ids
ContractViolated(r, ids) ==
  r.su = "none" \/ r.cited = {} \/ ~(r.cited \subseteq ids)

\* C37: no answer is returned as accepted in a turn in which the citation
\* contract was violated: a response that lacks STATUS_UPDATE, lacks
\* EVIDENCE_USED or cites an evidence id outside the evidence-id set is not
\* returned as the accepted answer in that turn.
C37_NoAcceptanceOnViolation ==
  [][(result = "none" /\ result' = "accepted")
       => ~ContractViolated(resp, evidence_ids)]_vars

----------------------------------------------------------------------------
\* C38: the verifier feedback pushed into the history after a rejecting round
\* reports the final score of the decision: whenever the cap lowered the
\* score, the score the agent sees in the feedback is the capped score, not
\* the score of the judge.
C38_FeedbackShowsCappedScore ==
  [][(/\ pc = "decided"
      /\ feedback'.form # "none"
      /\ decision.score < decision.score_before_cap)
       => feedback'.score = decision.score]_vars

----------------------------------------------------------------------------
\* C39: the sandbox started for a task is stopped exactly once on every way
\* run_agent can end, by return or by exception, an exception raised while
\* the notes and the ledgers are initialised included.
C39_SandboxStoppedOnce == pc \in Ended => sandbox_stops = 1

----------------------------------------------------------------------------
\* a step that handles a tool call a policy blocked
CallBlocked == CallHandled /\ evidence_new'[1].error_type \in BlockTypes

\* C40: a policy-blocked call leaves the search-tracking state unchanged:
\* recent_query_families, last_domain_key, domain_same_streak, the official
\* and independent domain sets, last_move_sig, move_repeat_streak and the
\* source-class failure streak are the same after the blocked call as before.
C40_BlockedKeepsSearchState ==
  [][CallBlocked =>
       UNCHANGED <<recent_query_families, last_domain, domain_same_streak,
                   official_domains_checked, independent_domains_checked,
                   last_move_sig, move_repeat_streak,
                   source_class_failure_streak>>]_vars

\* a blocked search call in a run that has a query family in its window, a
\* domain among the checked ones and a running domain streak
C40_Witness ==
  /\ evidence_new # <<>>
  /\ evidence_new[1].error_type \in {"query_mutation_required", "domain_shift_required"}
  /\ recent_query_families # <<>>
  /\ official_domains_checked \cup independent_domains_checked # {}
  /\ last_move_sig # NoMove
  /\ move_repeat_streak > 0

====
